---- MODULE Spec2Model ----
(***************************************************************************)
(* Model of the OSINT aggregation utilities (the `osint` utility module):  *)
(* fetchJSON, lookupIP, dohResolve, lookupDomain, lookupEmail and          *)
(* lookupUsername, with the promises they await modelled as tasks that the *)
(* upstream settles in any order.                                          *)
(*                                                                         *)
(* JavaScript values are tagged records: [t |-> "undef"], [t |-> "null"],  *)
(* [t |-> "str", v |-> <<characters>>], [t |-> "num", v |-> n],            *)
(* [t |-> "bool", v |-> b], [t |-> "obj", v |-> [key |-> value]] and       *)
(* [t |-> "arr", v |-> <<values>>].  A key an object does not have reads   *)
(* as undefined, exactly as a property read does.                          *)
(***************************************************************************)
EXTENDS Integers, Sequences, FiniteSets, TLC

VARIABLES
    upstream,   \* what each upstream source answers to a request (fixed per behaviour)
    call,       \* the invocation in progress: kind, input, pc, out
    task,       \* the promise of each source handed to the join: status and value
    arrival,    \* the providers of lookupIP in the order in which they settled
    issued,     \* the number of network requests issued to each source by this call
    prev,       \* the lookupIP completed before this one: settling order and outcome
    peer,       \* the parameters and locals of a second invocation, in flight at the same time
    ui          \* the state of the search form: its inputs, isLoading, results, history, toast

vars == <<upstream, call, task, arrival, issued, prev, peer, ui>>

------------------------------------------------------------------------------
\* JavaScript values

Undef == [t |-> "undef"]
Null == [t |-> "null"]
Str(s) == [t |-> "str", v |-> s]
Num(n) == [t |-> "num", v |-> n]
Bool(b) == [t |-> "bool", v |-> b]
Obj(f) == [t |-> "obj", v |-> f]
Arr(s) == [t |-> "arr", v |-> s]
\* A built-in function, by its name.
Fn(name) == [t |-> "fn", v |-> name]

\* An Error object.
Error(name) == [error |-> name]

\* What a function body gives: a returned value or a thrown error.
Return(x) == [ok |-> TRUE, value |-> x]
Throw(e) == [ok |-> FALSE, value |-> Error(e)]

\* Reading a property of null or undefined throws a TypeError.
CanGet(x) == x.t \notin {"undef", "null"}

\* x.k for a value whose properties can be read: an own property of an object,
\* the length of an array or of a string, and, of the keys the program reads,
\* the one that an array inherits from its prototype (reverse).
Get(x, k) ==
    CASE x.t = "obj" /\ k \in DOMAIN x.v -> x.v[k]
      [] x.t \in {"arr", "str"} /\ k = "length" -> Num(Len(x.v))
      [] x.t = "arr" /\ k = "reverse" -> Fn("reverse")
      [] OTHER -> Undef

\* x?.k
OptGet(x, k) == IF CanGet(x) THEN Get(x, k) ELSE Undef

\* ToBoolean
Truthy(x) ==
    CASE x.t = "undef" -> FALSE
      [] x.t = "null" -> FALSE
      [] x.t = "str" -> x.v # <<>>
      [] x.t = "num" -> x.v # 0
      [] x.t = "bool" -> x.v
      [] OTHER -> TRUE

\* a || b
Or(a, b) == IF Truthy(a) THEN a ELSE b

DigitChars == <<"0", "1", "2", "3", "4", "5", "6", "7", "8", "9">>

RECURSIVE NatToChars(_)
\* The decimal digits of a natural number, as Number.prototype.toString gives them.
NatToChars(n) ==
    IF n < 10 THEN <<DigitChars[n + 1]>>
    ELSE NatToChars(n \div 10) \o <<DigitChars[(n % 10) + 1]>>

RECURSIVE CanToString(_)
\* ToPrimitive of the value succeeds.  An object decoded from JSON that has an
\* own toString is not convertible (the property is never a function, and the
\* inherited valueOf returns the object); an array is converted by joining its
\* elements, each converted in turn unless it is null or undefined.
CanToString(x) ==
    CASE x.t = "obj" -> "toString" \notin DOMAIN x.v
      [] x.t = "arr" -> \A i \in 1..Len(x.v) : CanGet(x.v[i]) => CanToString(x.v[i])
      [] OTHER -> TRUE

RECURSIVE ToText(_)
RECURSIVE JoinChars(_)
\* Array.prototype.join: the texts of the elements separated by commas, null
\* and undefined elements giving the empty text.
JoinChars(elems) ==
    IF elems = <<>> THEN <<>>
    ELSE (IF CanGet(Head(elems)) THEN ToText(Head(elems)) ELSE <<>>)
         \o (IF Len(elems) > 1 THEN <<",">> \o JoinChars(Tail(elems)) ELSE <<>>)

\* The text of a convertible value: an integer in decimal with its sign, an array
\* joined, a plain object as [object Object].
ToText(x) ==
    CASE x.t = "str" -> x.v
      [] x.t = "num" -> IF x.v < 0 THEN <<"-">> \o NatToChars(0 - x.v) ELSE NatToChars(x.v)
      [] x.t = "bool" -> IF x.v THEN <<"t", "r", "u", "e">> ELSE <<"f", "a", "l", "s", "e">>
      [] x.t = "null" -> <<"n", "u", "l", "l">>
      [] x.t = "undef" -> <<"u", "n", "d", "e", "f", "i", "n", "e", "d">>
      [] x.t = "arr" -> JoinChars(x.v)
      [] x.t = "fn" -> <<"f", "u", "n", "c", "t", "i", "o", "n", " ", "r", "e", "v", "e", "r", "s", "e", "(", ")", " ", "{", " ", "[", "n", "a", "t", "i", "v", "e", " ", "c", "o", "d", "e", "]", " ", "}">>
      [] OTHER -> <<"[", "o", "b", "j", "e", "c", "t", " ", "O", "b", "j", "e", "c", "t", "]">>

\* The text a template literal `${x}` gives for x (ToString), or the TypeError
\* it throws on a value that cannot be converted.
TemplateChars(x) == IF CanToString(x) THEN Return(ToText(x)) ELSE Throw("TypeError")

------------------------------------------------------------------------------
\* Source client

Fulfilled(x) == [status |-> "fulfilled", value |-> x]
Rejected == [status |-> "rejected", value |-> Undef]
Pending == [status |-> "pending", value |-> Undef]
NotStarted == [status |-> "none", value |-> Undef]

\* An upstream response: fetch itself rejects ("transport"), the status is not in
\* the success range ("http"), the body is not JSON ("badjson"), or the body
\* decodes to a payload ("json").
TransportFailure == [kind |-> "transport", payload |-> Undef]
HttpFailure == [kind |-> "http", payload |-> Undef]
BadJson == [kind |-> "badjson", payload |-> Undef]
Json(p) == [kind |-> "json", payload |-> p]

FailedResponses == {TransportFailure, HttpFailure, BadJson}

\* Mutant of fetchJSON: res.ok is not looked at, the body of an error response is
\* decoded and returned.
fetchJSONAnyStatus(resp) ==
    IF resp.kind \in {"json", "http"} THEN Fulfilled(resp.payload) ELSE Rejected

\* fetchJSON: rejects when fetch rejects, when res.ok is false and when res.json()
\* rejects; otherwise fulfils with the decoded body.
fetchJSON(resp) ==
    IF resp.kind = "json" THEN Fulfilled(resp.payload) ELSE Rejected

Settled(p) == p.status \in {"fulfilled", "rejected"}

\* The requests sent to each source once the request to s has settled with r:
\* fetchJSON awaits one fetch and throws or returns, it never sends it again.
requestsAfter(s, r) == issued

------------------------------------------------------------------------------
\* Text: a string is the sequence of its characters

UpperChars == <<"A", "B", "C", "D", "E", "F", "G", "H", "I", "J", "K", "L", "M", "N", "O", "P", "Q", "R", "S", "T", "U", "V", "W", "X", "Y", "Z">>
LowerChars == <<"a", "b", "c", "d", "e", "f", "g", "h", "i", "j", "k", "l", "m", "n", "o", "p", "q", "r", "s", "t", "u", "v", "w", "x", "y", "z">>

IsDigit(c) == \E i \in 1..10 : DigitChars[i] = c

DigitValue(c) == (CHOOSE i \in 1..10 : DigitChars[i] = c) - 1

\* The value of a digit in base 16, and 16 for any other character.
HexValue(c) ==
    CASE c \in {"0", "1", "2", "3", "4", "5", "6", "7", "8", "9"} -> DigitValue(c)
      [] c \in {"a", "A"} -> 10 [] c \in {"b", "B"} -> 11 [] c \in {"c", "C"} -> 12
      [] c \in {"d", "D"} -> 13 [] c \in {"e", "E"} -> 14 [] c \in {"f", "F"} -> 15
      [] OTHER -> 16

\* A character is one UTF-16 code unit.  An ASCII character from the space to
\* the tilde is written as itself, the tab, line feed, form feed and carriage
\* return by their escapes, and every other code unit, and the grave accent,
\* by the name \uXXXX of its four hexadecimal digits in upper case.
AsciiChars ==
    <<" ", "!", "\"", "#", "$", "%", "&", "'", "(", ")", "*", "+", ",", "-", ".", "/",
      "0", "1", "2", "3", "4", "5", "6", "7", "8", "9", ":", ";", "<", "=", ">", "?",
      "@", "A", "B", "C", "D", "E", "F", "G", "H", "I", "J", "K", "L", "M", "N", "O",
      "P", "Q", "R", "S", "T", "U", "V", "W", "X", "Y", "Z", "[", "\\", "]", "^", "_",
      "\\u0060", "a", "b", "c", "d", "e", "f", "g", "h", "i", "j", "k", "l", "m", "n", "o",
      "p", "q", "r", "s", "t", "u", "v", "w", "x", "y", "z", "{", "|", "}", "~">>

HexDigitChars ==
    <<"0", "1", "2", "3", "4", "5", "6", "7", "8", "9", "A", "B", "C", "D", "E", "F">>

RECURSIVE HexToNat(_)
\* The number that the hexadecimal digits of a name write.
HexToNat(digits) ==
    IF digits = "" THEN 0
    ELSE 16 * HexToNat(SubSeq(digits, 1, Len(digits) - 1))
         + (CHOOSE i \in 1..16 : HexDigitChars[i] = SubSeq(digits, Len(digits), Len(digits))) - 1

\* The code unit of a character.
CodeOf(c) ==
    IF Len(c) = 6 THEN HexToNat(SubSeq(c, 3, 6))
    ELSE CASE c = "\t" -> 9 [] c = "\n" -> 10 [] c = "\f" -> 12 [] c = "\r" -> 13
           [] OTHER -> 31 + CHOOSE i \in 1..95 : AsciiChars[i] = c

\* The character of a code unit.
CharOf(n) ==
    CASE n = 9 -> "\t" [] n = 10 -> "\n" [] n = 12 -> "\f" [] n = 13 -> "\r"
      [] n \in 32..126 -> AsciiChars[n - 31]
      [] OTHER -> "\\u" \o HexDigitChars[(n \div 4096) + 1]
                  \o HexDigitChars[((n \div 256) % 16) + 1]
                  \o HexDigitChars[((n \div 16) % 16) + 1]
                  \o HexDigitChars[(n % 16) + 1]

RECURSIVE PairSurrogates(_)
\* A lead surrogate and the trail surrogate after it are one code point, any
\* other code unit is a code point of its own.
PairSurrogates(units) ==
    IF units = <<>> THEN <<>>
    ELSE IF Len(units) >= 2 /\ units[1] \in 55296..56319 /\ units[2] \in 56320..57343
         THEN <<65536 + 1024 * (units[1] - 55296) + (units[2] - 56320)>>
              \o PairSurrogates(SubSeq(units, 3, Len(units)))
         ELSE <<units[1]>> \o PairSurrogates(Tail(units))

\* The code points of a string.
CodePoints(s) == PairSurrogates([i \in 1..Len(s) |-> CodeOf(s[i])])

RECURSIVE SplitSurrogates(_)
\* A code point above the basic plane is a lead and a trail surrogate.
SplitSurrogates(points) ==
    IF points = <<>> THEN <<>>
    ELSE (IF Head(points) < 65536 THEN <<Head(points)>>
          ELSE <<55296 + ((Head(points) - 65536) \div 1024),
                 56320 + ((Head(points) - 65536) % 1024)>>)
         \o SplitSurrogates(Tail(points))

\* The string of a sequence of code points.
CodeUnits(points) ==
    [i \in 1..Len(SplitSurrogates(points)) |-> CharOf(SplitSurrogates(points)[i])]

\* The lower-case mappings of Unicode 17 that give one code point, as
\* <<first, last, step, delta>>: every code point from first to last in steps
\* of step maps to itself plus delta.
LowerRanges ==
    <<
     <<65, 90, 1, 32>>, <<192, 214, 1, 32>>, <<216, 222, 1, 32>>, <<256, 302, 2, 1>>,
     <<306, 310, 2, 1>>, <<313, 327, 2, 1>>, <<330, 374, 2, 1>>, <<376, 376, 1, -121>>,
     <<377, 381, 2, 1>>, <<385, 385, 1, 210>>, <<386, 388, 2, 1>>, <<390, 390, 1, 206>>,
     <<391, 391, 1, 1>>, <<393, 394, 1, 205>>, <<395, 395, 1, 1>>, <<398, 398, 1, 79>>,
     <<399, 399, 1, 202>>, <<400, 400, 1, 203>>, <<401, 401, 1, 1>>, <<403, 403, 1, 205>>,
     <<404, 404, 1, 207>>, <<406, 406, 1, 211>>, <<407, 407, 1, 209>>, <<408, 408, 1, 1>>,
     <<412, 412, 1, 211>>, <<413, 413, 1, 213>>, <<415, 415, 1, 214>>, <<416, 420, 2, 1>>,
     <<422, 422, 1, 218>>, <<423, 423, 1, 1>>, <<425, 425, 1, 218>>, <<428, 428, 1, 1>>,
     <<430, 430, 1, 218>>, <<431, 431, 1, 1>>, <<433, 434, 1, 217>>, <<435, 437, 2, 1>>,
     <<439, 439, 1, 219>>, <<440, 440, 1, 1>>, <<444, 444, 1, 1>>, <<452, 452, 1, 2>>,
     <<453, 453, 1, 1>>, <<455, 455, 1, 2>>, <<456, 456, 1, 1>>, <<458, 458, 1, 2>>,
     <<459, 475, 2, 1>>, <<478, 494, 2, 1>>, <<497, 497, 1, 2>>, <<498, 500, 2, 1>>,
     <<502, 502, 1, -97>>, <<503, 503, 1, -56>>, <<504, 542, 2, 1>>, <<544, 544, 1, -130>>,
     <<546, 562, 2, 1>>, <<570, 570, 1, 10795>>, <<571, 571, 1, 1>>, <<573, 573, 1, -163>>,
     <<574, 574, 1, 10792>>, <<577, 577, 1, 1>>, <<579, 579, 1, -195>>, <<580, 580, 1, 69>>,
     <<581, 581, 1, 71>>, <<582, 590, 2, 1>>, <<880, 882, 2, 1>>, <<886, 886, 1, 1>>,
     <<895, 895, 1, 116>>, <<902, 902, 1, 38>>, <<904, 906, 1, 37>>, <<908, 908, 1, 64>>,
     <<910, 911, 1, 63>>, <<913, 929, 1, 32>>, <<931, 939, 1, 32>>, <<975, 975, 1, 8>>,
     <<984, 1006, 2, 1>>, <<1012, 1012, 1, -60>>, <<1015, 1015, 1, 1>>, <<1017, 1017, 1, -7>>,
     <<1018, 1018, 1, 1>>, <<1021, 1023, 1, -130>>, <<1024, 1039, 1, 80>>, <<1040, 1071, 1, 32>>,
     <<1120, 1152, 2, 1>>, <<1162, 1214, 2, 1>>, <<1216, 1216, 1, 15>>, <<1217, 1229, 2, 1>>,
     <<1232, 1326, 2, 1>>, <<1329, 1366, 1, 48>>, <<4256, 4293, 1, 7264>>, <<4295, 4295, 1, 7264>>,
     <<4301, 4301, 1, 7264>>, <<5024, 5103, 1, 38864>>, <<5104, 5109, 1, 8>>, <<7305, 7305, 1, 1>>,
     <<7312, 7354, 1, -3008>>, <<7357, 7359, 1, -3008>>, <<7680, 7828, 2, 1>>, <<7838, 7838, 1, -7615>>,
     <<7840, 7934, 2, 1>>, <<7944, 7951, 1, -8>>, <<7960, 7965, 1, -8>>, <<7976, 7983, 1, -8>>,
     <<7992, 7999, 1, -8>>, <<8008, 8013, 1, -8>>, <<8025, 8031, 2, -8>>, <<8040, 8047, 1, -8>>,
     <<8072, 8079, 1, -8>>, <<8088, 8095, 1, -8>>, <<8104, 8111, 1, -8>>, <<8120, 8121, 1, -8>>,
     <<8122, 8123, 1, -74>>, <<8124, 8124, 1, -9>>, <<8136, 8139, 1, -86>>, <<8140, 8140, 1, -9>>,
     <<8152, 8153, 1, -8>>, <<8154, 8155, 1, -100>>, <<8168, 8169, 1, -8>>, <<8170, 8171, 1, -112>>,
     <<8172, 8172, 1, -7>>, <<8184, 8185, 1, -128>>, <<8186, 8187, 1, -126>>, <<8188, 8188, 1, -9>>,
     <<8486, 8486, 1, -7517>>, <<8490, 8490, 1, -8383>>, <<8491, 8491, 1, -8262>>, <<8498, 8498, 1, 28>>,
     <<8544, 8559, 1, 16>>, <<8579, 8579, 1, 1>>, <<9398, 9423, 1, 26>>, <<11264, 11311, 1, 48>>,
     <<11360, 11360, 1, 1>>, <<11362, 11362, 1, -10743>>, <<11363, 11363, 1, -3814>>, <<11364, 11364, 1, -10727>>,
     <<11367, 11371, 2, 1>>, <<11373, 11373, 1, -10780>>, <<11374, 11374, 1, -10749>>, <<11375, 11375, 1, -10783>>,
     <<11376, 11376, 1, -10782>>, <<11378, 11378, 1, 1>>, <<11381, 11381, 1, 1>>, <<11390, 11391, 1, -10815>>,
     <<11392, 11490, 2, 1>>, <<11499, 11501, 2, 1>>, <<11506, 11506, 1, 1>>, <<42560, 42604, 2, 1>>,
     <<42624, 42650, 2, 1>>, <<42786, 42798, 2, 1>>, <<42802, 42862, 2, 1>>, <<42873, 42875, 2, 1>>,
     <<42877, 42877, 1, -35332>>, <<42878, 42886, 2, 1>>, <<42891, 42891, 1, 1>>, <<42893, 42893, 1, -42280>>,
     <<42896, 42898, 2, 1>>, <<42902, 42920, 2, 1>>, <<42922, 42922, 1, -42308>>, <<42923, 42923, 1, -42319>>,
     <<42924, 42924, 1, -42315>>, <<42925, 42925, 1, -42305>>, <<42926, 42926, 1, -42308>>, <<42928, 42928, 1, -42258>>,
     <<42929, 42929, 1, -42282>>, <<42930, 42930, 1, -42261>>, <<42931, 42931, 1, 928>>, <<42932, 42946, 2, 1>>,
     <<42948, 42948, 1, -48>>, <<42949, 42949, 1, -42307>>, <<42950, 42950, 1, -35384>>, <<42951, 42953, 2, 1>>,
     <<42955, 42955, 1, -42343>>, <<42956, 42970, 2, 1>>, <<42972, 42972, 1, -42561>>, <<42997, 42997, 1, 1>>,
     <<65313, 65338, 1, 32>>, <<66560, 66599, 1, 40>>, <<66736, 66771, 1, 40>>, <<66928, 66938, 1, 39>>,
     <<66940, 66954, 1, 39>>, <<66956, 66962, 1, 39>>, <<66964, 66965, 1, 39>>, <<68736, 68786, 1, 64>>,
     <<68944, 68965, 1, 32>>, <<71840, 71871, 1, 32>>, <<93760, 93791, 1, 32>>, <<93856, 93880, 1, 27>>,
     <<125184, 125217, 1, 34>>
    >>

\* The code points with the property Case_Ignorable, as <<first, last>>.
CaseIgnorableRanges ==
    <<
     <<39, 39>>, <<46, 46>>, <<58, 58>>, <<94, 94>>, <<96, 96>>,
     <<168, 168>>, <<173, 173>>, <<175, 175>>, <<180, 180>>, <<183, 184>>,
     <<688, 879>>, <<884, 885>>, <<890, 890>>, <<900, 901>>, <<903, 903>>,
     <<1155, 1161>>, <<1369, 1369>>, <<1375, 1375>>, <<1425, 1469>>, <<1471, 1471>>,
     <<1473, 1474>>, <<1476, 1477>>, <<1479, 1479>>, <<1524, 1524>>, <<1536, 1541>>,
     <<1552, 1562>>, <<1564, 1564>>, <<1600, 1600>>, <<1611, 1631>>, <<1648, 1648>>,
     <<1750, 1757>>, <<1759, 1768>>, <<1770, 1773>>, <<1807, 1807>>, <<1809, 1809>>,
     <<1840, 1866>>, <<1958, 1968>>, <<2027, 2037>>, <<2042, 2042>>, <<2045, 2045>>,
     <<2070, 2093>>, <<2137, 2139>>, <<2184, 2184>>, <<2192, 2193>>, <<2199, 2207>>,
     <<2249, 2306>>, <<2362, 2362>>, <<2364, 2364>>, <<2369, 2376>>, <<2381, 2381>>,
     <<2385, 2391>>, <<2402, 2403>>, <<2417, 2417>>, <<2433, 2433>>, <<2492, 2492>>,
     <<2497, 2500>>, <<2509, 2509>>, <<2530, 2531>>, <<2558, 2558>>, <<2561, 2562>>,
     <<2620, 2620>>, <<2625, 2626>>, <<2631, 2632>>, <<2635, 2637>>, <<2641, 2641>>,
     <<2672, 2673>>, <<2677, 2677>>, <<2689, 2690>>, <<2748, 2748>>, <<2753, 2757>>,
     <<2759, 2760>>, <<2765, 2765>>, <<2786, 2787>>, <<2810, 2815>>, <<2817, 2817>>,
     <<2876, 2876>>, <<2879, 2879>>, <<2881, 2884>>, <<2893, 2893>>, <<2901, 2902>>,
     <<2914, 2915>>, <<2946, 2946>>, <<3008, 3008>>, <<3021, 3021>>, <<3072, 3072>>,
     <<3076, 3076>>, <<3132, 3132>>, <<3134, 3136>>, <<3142, 3144>>, <<3146, 3149>>,
     <<3157, 3158>>, <<3170, 3171>>, <<3201, 3201>>, <<3260, 3260>>, <<3263, 3263>>,
     <<3270, 3270>>, <<3276, 3277>>, <<3298, 3299>>, <<3328, 3329>>, <<3387, 3388>>,
     <<3393, 3396>>, <<3405, 3405>>, <<3426, 3427>>, <<3457, 3457>>, <<3530, 3530>>,
     <<3538, 3540>>, <<3542, 3542>>, <<3633, 3633>>, <<3636, 3642>>, <<3654, 3662>>,
     <<3761, 3761>>, <<3764, 3772>>, <<3782, 3782>>, <<3784, 3790>>, <<3864, 3865>>,
     <<3893, 3893>>, <<3895, 3895>>, <<3897, 3897>>, <<3953, 3966>>, <<3968, 3972>>,
     <<3974, 3975>>, <<3981, 3991>>, <<3993, 4028>>, <<4038, 4038>>, <<4141, 4144>>,
     <<4146, 4151>>, <<4153, 4154>>, <<4157, 4158>>, <<4184, 4185>>, <<4190, 4192>>,
     <<4209, 4212>>, <<4226, 4226>>, <<4229, 4230>>, <<4237, 4237>>, <<4253, 4253>>,
     <<4348, 4348>>, <<4957, 4959>>, <<5906, 5908>>, <<5938, 5939>>, <<5970, 5971>>,
     <<6002, 6003>>, <<6068, 6069>>, <<6071, 6077>>, <<6086, 6086>>, <<6089, 6099>>,
     <<6103, 6103>>, <<6109, 6109>>, <<6155, 6159>>, <<6211, 6211>>, <<6277, 6278>>,
     <<6313, 6313>>, <<6432, 6434>>, <<6439, 6440>>, <<6450, 6450>>, <<6457, 6459>>,
     <<6679, 6680>>, <<6683, 6683>>, <<6742, 6742>>, <<6744, 6750>>, <<6752, 6752>>,
     <<6754, 6754>>, <<6757, 6764>>, <<6771, 6780>>, <<6783, 6783>>, <<6823, 6823>>,
     <<6832, 6877>>, <<6880, 6891>>, <<6912, 6915>>, <<6964, 6964>>, <<6966, 6970>>,
     <<6972, 6972>>, <<6978, 6978>>, <<7019, 7027>>, <<7040, 7041>>, <<7074, 7077>>,
     <<7080, 7081>>, <<7083, 7085>>, <<7142, 7142>>, <<7144, 7145>>, <<7149, 7149>>,
     <<7151, 7153>>, <<7212, 7219>>, <<7222, 7223>>, <<7288, 7293>>, <<7376, 7378>>,
     <<7380, 7392>>, <<7394, 7400>>, <<7405, 7405>>, <<7412, 7412>>, <<7416, 7417>>,
     <<7468, 7530>>, <<7544, 7544>>, <<7579, 7679>>, <<8125, 8125>>, <<8127, 8129>>,
     <<8141, 8143>>, <<8157, 8159>>, <<8173, 8175>>, <<8189, 8190>>, <<8203, 8207>>,
     <<8216, 8217>>, <<8228, 8228>>, <<8231, 8231>>, <<8234, 8238>>, <<8288, 8292>>,
     <<8294, 8303>>, <<8305, 8305>>, <<8319, 8319>>, <<8336, 8348>>, <<8400, 8432>>,
     <<11388, 11389>>, <<11503, 11505>>, <<11631, 11631>>, <<11647, 11647>>, <<11744, 11775>>,
     <<11823, 11823>>, <<12293, 12293>>, <<12330, 12333>>, <<12337, 12341>>, <<12347, 12347>>,
     <<12441, 12446>>, <<12540, 12542>>, <<40981, 40981>>, <<42232, 42237>>, <<42508, 42508>>,
     <<42607, 42610>>, <<42612, 42621>>, <<42623, 42623>>, <<42652, 42655>>, <<42736, 42737>>,
     <<42752, 42785>>, <<42864, 42864>>, <<42888, 42890>>, <<42993, 42996>>, <<43000, 43001>>,
     <<43010, 43010>>, <<43014, 43014>>, <<43019, 43019>>, <<43045, 43046>>, <<43052, 43052>>,
     <<43204, 43205>>, <<43232, 43249>>, <<43263, 43263>>, <<43302, 43309>>, <<43335, 43345>>,
     <<43392, 43394>>, <<43443, 43443>>, <<43446, 43449>>, <<43452, 43453>>, <<43471, 43471>>,
     <<43493, 43494>>, <<43561, 43566>>, <<43569, 43570>>, <<43573, 43574>>, <<43587, 43587>>,
     <<43596, 43596>>, <<43632, 43632>>, <<43644, 43644>>, <<43696, 43696>>, <<43698, 43700>>,
     <<43703, 43704>>, <<43710, 43711>>, <<43713, 43713>>, <<43741, 43741>>, <<43756, 43757>>,
     <<43763, 43764>>, <<43766, 43766>>, <<43867, 43871>>, <<43881, 43883>>, <<44005, 44005>>,
     <<44008, 44008>>, <<44013, 44013>>, <<64286, 64286>>, <<64434, 64450>>, <<65024, 65039>>,
     <<65043, 65043>>, <<65056, 65071>>, <<65106, 65106>>, <<65109, 65109>>, <<65279, 65279>>,
     <<65287, 65287>>, <<65294, 65294>>, <<65306, 65306>>, <<65342, 65342>>, <<65344, 65344>>,
     <<65392, 65392>>, <<65438, 65439>>, <<65507, 65507>>, <<65529, 65531>>, <<66045, 66045>>,
     <<66272, 66272>>, <<66422, 66426>>, <<67456, 67461>>, <<67463, 67504>>, <<67506, 67514>>,
     <<68097, 68099>>, <<68101, 68102>>, <<68108, 68111>>, <<68152, 68154>>, <<68159, 68159>>,
     <<68325, 68326>>, <<68900, 68903>>, <<68942, 68942>>, <<68969, 68973>>, <<68975, 68975>>,
     <<69291, 69292>>, <<69317, 69317>>, <<69370, 69375>>, <<69446, 69456>>, <<69506, 69509>>,
     <<69633, 69633>>, <<69688, 69702>>, <<69744, 69744>>, <<69747, 69748>>, <<69759, 69761>>,
     <<69811, 69814>>, <<69817, 69818>>, <<69821, 69821>>, <<69826, 69826>>, <<69837, 69837>>,
     <<69888, 69890>>, <<69927, 69931>>, <<69933, 69940>>, <<70003, 70003>>, <<70016, 70017>>,
     <<70070, 70078>>, <<70089, 70092>>, <<70095, 70095>>, <<70191, 70193>>, <<70196, 70196>>,
     <<70198, 70199>>, <<70206, 70206>>, <<70209, 70209>>, <<70367, 70367>>, <<70371, 70378>>,
     <<70400, 70401>>, <<70459, 70460>>, <<70464, 70464>>, <<70502, 70508>>, <<70512, 70516>>,
     <<70587, 70592>>, <<70606, 70606>>, <<70608, 70608>>, <<70610, 70610>>, <<70625, 70626>>,
     <<70712, 70719>>, <<70722, 70724>>, <<70726, 70726>>, <<70750, 70750>>, <<70835, 70840>>,
     <<70842, 70842>>, <<70847, 70848>>, <<70850, 70851>>, <<71090, 71093>>, <<71100, 71101>>,
     <<71103, 71104>>, <<71132, 71133>>, <<71219, 71226>>, <<71229, 71229>>, <<71231, 71232>>,
     <<71339, 71339>>, <<71341, 71341>>, <<71344, 71349>>, <<71351, 71351>>, <<71453, 71453>>,
     <<71455, 71455>>, <<71458, 71461>>, <<71463, 71467>>, <<71727, 71735>>, <<71737, 71738>>,
     <<71995, 71996>>, <<71998, 71998>>, <<72003, 72003>>, <<72148, 72151>>, <<72154, 72155>>,
     <<72160, 72160>>, <<72193, 72202>>, <<72243, 72248>>, <<72251, 72254>>, <<72263, 72263>>,
     <<72273, 72278>>, <<72281, 72283>>, <<72330, 72342>>, <<72344, 72345>>, <<72544, 72544>>,
     <<72546, 72548>>, <<72550, 72550>>, <<72752, 72758>>, <<72760, 72765>>, <<72767, 72767>>,
     <<72850, 72871>>, <<72874, 72880>>, <<72882, 72883>>, <<72885, 72886>>, <<73009, 73014>>,
     <<73018, 73018>>, <<73020, 73021>>, <<73023, 73029>>, <<73031, 73031>>, <<73104, 73105>>,
     <<73109, 73109>>, <<73111, 73111>>, <<73177, 73177>>, <<73459, 73460>>, <<73472, 73473>>,
     <<73526, 73530>>, <<73536, 73536>>, <<73538, 73538>>, <<73562, 73562>>, <<78896, 78912>>,
     <<78919, 78933>>, <<90398, 90409>>, <<90413, 90415>>, <<92912, 92916>>, <<92976, 92982>>,
     <<92992, 92995>>, <<93504, 93506>>, <<93547, 93548>>, <<94031, 94031>>, <<94095, 94111>>,
     <<94176, 94177>>, <<94179, 94180>>, <<94194, 94195>>, <<110576, 110579>>, <<110581, 110587>>,
     <<110589, 110590>>, <<113821, 113822>>, <<113824, 113827>>, <<118528, 118573>>, <<118576, 118598>>,
     <<119143, 119145>>, <<119155, 119170>>, <<119173, 119179>>, <<119210, 119213>>, <<119362, 119364>>,
     <<121344, 121398>>, <<121403, 121452>>, <<121461, 121461>>, <<121476, 121476>>, <<121499, 121503>>,
     <<121505, 121519>>, <<122880, 122886>>, <<122888, 122904>>, <<122907, 122913>>, <<122915, 122916>>,
     <<122918, 122922>>, <<122928, 122989>>, <<123023, 123023>>, <<123184, 123197>>, <<123566, 123566>>,
     <<123628, 123631>>, <<124139, 124143>>, <<124398, 124399>>, <<124643, 124643>>, <<124646, 124646>>,
     <<124654, 124655>>, <<124661, 124661>>, <<124671, 124671>>, <<125136, 125142>>, <<125252, 125259>>,
     <<127995, 127999>>, <<917505, 917505>>, <<917536, 917631>>, <<917760, 917999>>
    >>

\* The code points with the property Cased that are not Case_Ignorable, as
\* <<first, last>>.
CasedRanges ==
    <<
     <<65, 90>>, <<97, 122>>, <<170, 170>>, <<181, 181>>, <<186, 186>>,
     <<192, 214>>, <<216, 246>>, <<248, 442>>, <<444, 447>>, <<452, 659>>,
     <<662, 687>>, <<880, 883>>, <<886, 887>>, <<891, 893>>, <<895, 895>>,
     <<902, 902>>, <<904, 906>>, <<908, 908>>, <<910, 929>>, <<931, 1013>>,
     <<1015, 1153>>, <<1162, 1327>>, <<1329, 1366>>, <<1376, 1416>>, <<4256, 4293>>,
     <<4295, 4295>>, <<4301, 4301>>, <<4304, 4346>>, <<4349, 4351>>, <<5024, 5109>>,
     <<5112, 5117>>, <<7296, 7306>>, <<7312, 7354>>, <<7357, 7359>>, <<7424, 7467>>,
     <<7531, 7543>>, <<7545, 7578>>, <<7680, 7957>>, <<7960, 7965>>, <<7968, 8005>>,
     <<8008, 8013>>, <<8016, 8023>>, <<8025, 8025>>, <<8027, 8027>>, <<8029, 8029>>,
     <<8031, 8061>>, <<8064, 8116>>, <<8118, 8124>>, <<8126, 8126>>, <<8130, 8132>>,
     <<8134, 8140>>, <<8144, 8147>>, <<8150, 8155>>, <<8160, 8172>>, <<8178, 8180>>,
     <<8182, 8188>>, <<8450, 8450>>, <<8455, 8455>>, <<8458, 8467>>, <<8469, 8469>>,
     <<8473, 8477>>, <<8484, 8484>>, <<8486, 8486>>, <<8488, 8488>>, <<8490, 8493>>,
     <<8495, 8500>>, <<8505, 8505>>, <<8508, 8511>>, <<8517, 8521>>, <<8526, 8526>>,
     <<8544, 8575>>, <<8579, 8580>>, <<9398, 9449>>, <<11264, 11387>>, <<11390, 11492>>,
     <<11499, 11502>>, <<11506, 11507>>, <<11520, 11557>>, <<11559, 11559>>, <<11565, 11565>>,
     <<42560, 42605>>, <<42624, 42651>>, <<42786, 42863>>, <<42865, 42887>>, <<42891, 42894>>,
     <<42896, 42972>>, <<42997, 42998>>, <<43002, 43002>>, <<43824, 43866>>, <<43872, 43880>>,
     <<43888, 43967>>, <<64256, 64262>>, <<64275, 64279>>, <<65313, 65338>>, <<65345, 65370>>,
     <<66560, 66639>>, <<66736, 66771>>, <<66776, 66811>>, <<66928, 66938>>, <<66940, 66954>>,
     <<66956, 66962>>, <<66964, 66965>>, <<66967, 66977>>, <<66979, 66993>>, <<66995, 67001>>,
     <<67003, 67004>>, <<68736, 68786>>, <<68800, 68850>>, <<68944, 68965>>, <<68976, 68997>>,
     <<71840, 71903>>, <<93760, 93823>>, <<93856, 93880>>, <<93883, 93907>>, <<119808, 119892>>,
     <<119894, 119964>>, <<119966, 119967>>, <<119970, 119970>>, <<119973, 119974>>, <<119977, 119980>>,
     <<119982, 119993>>, <<119995, 119995>>, <<119997, 120003>>, <<120005, 120069>>, <<120071, 120074>>,
     <<120077, 120084>>, <<120086, 120092>>, <<120094, 120121>>, <<120123, 120126>>, <<120128, 120132>>,
     <<120134, 120134>>, <<120138, 120144>>, <<120146, 120485>>, <<120488, 120512>>, <<120514, 120538>>,
     <<120540, 120570>>, <<120572, 120596>>, <<120598, 120628>>, <<120630, 120654>>, <<120656, 120686>>,
     <<120688, 120712>>, <<120714, 120744>>, <<120746, 120770>>, <<120772, 120779>>, <<122624, 122633>>,
     <<122635, 122654>>, <<122661, 122666>>, <<125184, 125251>>, <<127280, 127305>>, <<127312, 127337>>,
     <<127344, 127369>>
    >>

InRanges(n, ranges) == \E i \in 1..Len(ranges) : n >= ranges[i][1] /\ n <= ranges[i][2]

\* n plus the delta of the mapping of ranges that holds n, or n.
Mapped(n, ranges) ==
    LET Hits == {i \in 1..Len(ranges) : /\ n >= ranges[i][1] /\ n <= ranges[i][2]
                                        /\ (n - ranges[i][1]) % ranges[i][3] = 0}
    IN  IF Hits = {} THEN n ELSE n + ranges[CHOOSE i \in Hits : TRUE][4]

\* The lower case of a code point out of context: the capital I with a dot
\* above gives i and a combining dot above, a code point of LowerRanges its
\* mapping, any other code point itself.
LowerCode(n) ==
    IF n < 128 THEN <<IF n \in 65..90 THEN n + 32 ELSE n>>
    ELSE IF n = 304 THEN <<105, 775>>
    ELSE <<Mapped(n, LowerRanges)>>

RECURSIVE LastNotIgnorable(_, _)
\* The last index up to i of a code point that is not case-ignorable, or 0.
LastNotIgnorable(cps, i) ==
    IF i = 0 THEN 0
    ELSE IF InRanges(cps[i], CaseIgnorableRanges) THEN LastNotIgnorable(cps, i - 1)
    ELSE i

RECURSIVE FirstNotIgnorable(_, _)
\* The first index from i on of a code point that is not case-ignorable, or 0.
FirstNotIgnorable(cps, i) ==
    IF i > Len(cps) THEN 0
    ELSE IF InRanges(cps[i], CaseIgnorableRanges) THEN FirstNotIgnorable(cps, i + 1)
    ELSE i

\* The code point at index before is cased, and the one at index after is not;
\* an index of 0 stands for no code point.
CasedThenNot(cps, before, after) ==
    /\ before > 0
    /\ InRanges(cps[before], CasedRanges)
    /\ after > 0 => ~InRanges(cps[after], CasedRanges)

\* The capital sigma at index i is final: the nearest code point before it that
\* is not case-ignorable is cased, and the nearest one after it is not.
FinalSigma(cps, i) ==
    CasedThenNot(cps, LastNotIgnorable(cps, i - 1), FirstNotIgnorable(cps, i + 1))

\* The lower case of one character on its own.
LowerChar(c) == CodeUnits(LowerCode(CodeOf(c)))

RECURSIVE LowerFrom(_, _)
\* The lower case of the code points from index i on.
LowerFrom(cps, i) ==
    IF i > Len(cps) THEN <<>>
    ELSE (IF cps[i] = 931 THEN <<IF FinalSigma(cps, i) THEN 962 ELSE 963>>
          ELSE LowerCode(cps[i]))
         \o LowerFrom(cps, i + 1)

\* String.prototype.toLowerCase: every code point in lower case, a capital sigma
\* as the final sigma where it ends a word.
ToLowerCase(s) == CodeUnits(LowerFrom(CodePoints(s), 1))

\* The characters \s matches and trim() removes (WhiteSpace and LineTerminator
\* of the language), and among them the line terminators, which . does not
\* match.  A character that has no escape of its own is named by its code unit.
WhiteSpaceChars ==
    {" ", "\t", "\n", "\r", "\f", "\\u000B", "\\u00A0", "\\u1680",
     "\\u2000", "\\u2001", "\\u2002", "\\u2003", "\\u2004", "\\u2005",
     "\\u2006", "\\u2007", "\\u2008", "\\u2009", "\\u200A",
     "\\u2028", "\\u2029", "\\u202F", "\\u205F", "\\u3000", "\\uFEFF"}
LineTerminators == {"\n", "\r", "\\u2028", "\\u2029"}

\* sub occurs in s at index i.
OccursAt(s, sub, i) ==
    /\ i >= 1
    /\ i + Len(sub) - 1 <= Len(s)
    /\ \A j \in 1..Len(sub) : s[i + j - 1] = sub[j]

\* String.prototype.includes
Includes(s, sub) == \E i \in 1..(Len(s) + 1) : OccursAt(s, sub, i)

\* The number of leading (trailing) characters of s that are in Chars.
RECURSIVE LeadingCount(_, _)
LeadingCount(s, Chars) ==
    IF s # <<>> /\ Head(s) \in Chars THEN 1 + LeadingCount(Tail(s), Chars) ELSE 0

RECURSIVE TrailingCount(_, _)
TrailingCount(s, Chars) ==
    IF s # <<>> /\ s[Len(s)] \in Chars
    THEN 1 + TrailingCount(SubSeq(s, 1, Len(s) - 1), Chars)
    ELSE 0

\* String.prototype.trim
Trim(s) ==
    LET lead == LeadingCount(s, WhiteSpaceChars)
    IN  IF lead = Len(s) THEN <<>>
        ELSE SubSeq(s, lead + 1, Len(s) - TrailingCount(s, WhiteSpaceChars))

\* s.replace(/\.$/, ''): one trailing dot removed.
StripTrailingDot(s) ==
    IF s # <<>> /\ s[Len(s)] = "." THEN SubSeq(s, 1, Len(s) - 1) ELSE s

\* s.replace(/^"|"$/g, ''): one leading and one trailing double quote removed.
StripQuotes(s) ==
    LET noLead == IF s # <<>> /\ Head(s) = "\"" THEN Tail(s) ELSE s
    IN  IF noLead # <<>> /\ noLead[Len(noLead)] = "\""
        THEN SubSeq(noLead, 1, Len(noLead) - 1)
        ELSE noLead

RECURSIVE CharsToNat(_)
\* parseInt(digits, 10) of a run of decimal digits.
CharsToNat(s) ==
    IF s = <<>> THEN 0
    ELSE 10 * CharsToNat(SubSeq(s, 1, Len(s) - 1)) + DigitValue(s[Len(s)])

------------------------------------------------------------------------------
\* URI encoding

DigitSet == {DigitChars[i] : i \in 1..10}

\* One UTF-16 code unit that is a surrogate without its pair.
LoneSurrogate == "\\uD800"

UnreservedChars ==
    {"A", "B", "C", "D", "E", "F", "G", "H", "I", "J", "K", "L", "M", "N", "O", "P", "Q",
     "R", "S", "T", "U", "V", "W", "X", "Y", "Z", "a", "b", "c", "d", "e", "f", "g", "h",
     "i", "j", "k", "l", "m", "n", "o", "p", "q", "r", "s", "t", "u", "v", "w", "x", "y",
     "z", "0", "1", "2", "3", "4", "5", "6", "7", "8", "9",
     "-", "_", ".", "!", "~", "*", "'", "(", ")"}

\* The UTF-8 bytes of a code point.
Utf8(n) ==
    IF n < 128 THEN <<n>>
    ELSE IF n < 2048 THEN <<192 + (n \div 64), 128 + (n % 64)>>
    ELSE IF n < 65536
         THEN <<224 + (n \div 4096), 128 + ((n \div 64) % 64), 128 + (n % 64)>>
    ELSE <<240 + (n \div 262144), 128 + ((n \div 4096) % 64), 128 + ((n \div 64) % 64),
           128 + (n % 64)>>

RECURSIVE PercentBytes(_)
\* %XX of every byte.
PercentBytes(bytes) ==
    IF bytes = <<>> THEN <<>>
    ELSE <<"%", HexDigitChars[(Head(bytes) \div 16) + 1], HexDigitChars[(Head(bytes) % 16) + 1]>>
         \o PercentBytes(Tail(bytes))

\* The escape of a character that is not a surrogate: those of its UTF-8 bytes.
PercentEscape(c) == PercentBytes(Utf8(CodeOf(c)))

RECURSIVE EscapeChars(_)
\* The unreserved characters stay, every other code point is escaped.
EscapeChars(s) ==
    IF s = <<>> THEN <<>>
    ELSE IF Head(s) \in UnreservedChars THEN <<Head(s)>> \o EscapeChars(Tail(s))
    ELSE PercentBytes(Utf8(Head(CodePoints(s))))
         \o EscapeChars(SubSeq(s, IF Head(CodePoints(s)) < 65536 THEN 2 ELSE 3, Len(s)))

\* encodeURIComponent: throws a URIError on a surrogate without its pair, and
\* otherwise escapes every code point that is not an unreserved character.
encodeURIComponent(s) ==
    IF \E n \in {CodePoints(s)[i] : i \in 1..Len(CodePoints(s))} : n \in 55296..57343
    THEN Throw("URIError")
    ELSE Return(EscapeChars(s))

------------------------------------------------------------------------------
\* IP Aggregator

IpApi == "ip-api.com"
IpWho == "ipwho.is"
IPSources == {IpApi, IpWho}

ScalarFields ==
    {"ip", "city", "region", "country", "lat", "lon", "isp", "org", "asn",
     "reverse", "timezone", "proxy", "hosting"}

\* let out: IPLookup = { sources }: no scalar field, an empty sources mapping.
\* sources is the set of its <<name, payload>> entries.
EmptyIPLookup ==
    [ip |-> Undef, city |-> Undef, region |-> Undef, country |-> Undef,
     lat |-> Undef, lon |-> Undef, isp |-> Undef, org |-> Undef, asn |-> Undef,
     reverse |-> Undef, timezone |-> Undef, proxy |-> Undef, hosting |-> Undef,
     sources |-> {}]

FailChars == <<"f", "a", "i", "l">>

\* out = { ...out, ip: d.query, city: d.city, ... }
ApplyIpApi(out, d) ==
    [out EXCEPT !.ip = Get(d, "query"),
                !.city = Get(d, "city"),
                !.region = Get(d, "regionName"),
                !.country = Get(d, "country"),
                !.lat = Get(d, "lat"),
                !.lon = Get(d, "lon"),
                !.isp = Get(d, "isp"),
                !.org = Get(d, "org"),
                !.asn = Get(d, "as"),
                !.reverse = Get(d, "reverse"),
                !.timezone = Get(d, "timezone")]

\* w.connection?.asn ? `AS${w.connection?.asn}` : undefined; the template throws
\* on an asn that cannot be converted to text.
IpWhoAsn(w) ==
    LET asn == OptGet(Get(w, "connection"), "asn")
    IN  IF ~Truthy(asn) THEN Return(Undef)
        ELSE IF TemplateChars(asn).ok
             THEN Return(Str(<<"A", "S">> \o TemplateChars(asn).value))
             ELSE TemplateChars(asn)

\* Mutant of ApplyIpWho: the later provider overwrites (w.city || out.city).
ApplyIpWhoLastWins(out, w) ==
    IF ~IpWhoAsn(w).ok THEN IpWhoAsn(w)
    ELSE Return(
    [out EXCEPT !.ip = Or(Get(w, "ip"), out.ip),
                !.city = Or(Get(w, "city"), out.city),
                !.region = Or(Get(w, "region"), out.region),
                !.country = Or(Get(w, "country"), out.country),
                !.lat = Or(Get(w, "latitude"), out.lat),
                !.lon = Or(Get(w, "longitude"), out.lon),
                !.isp = Or(Or(OptGet(Get(w, "connection"), "isp"),
                              OptGet(Get(w, "connection"), "org")), out.isp),
                !.org = Or(OptGet(Get(w, "connection"), "org"), out.org),
                !.asn = Or(IpWhoAsn(w).value, out.asn),
                !.timezone = Or(OptGet(Get(w, "timezone"), "id"), out.timezone)])

\* out = { ...out, ip: out.ip || w.ip, city: out.city || w.city, ... }: the
\* template of asn is evaluated, and may throw, only when out.asn is falsy.
ApplyIpWho(out, w) ==
    IF ~Truthy(out.asn) /\ ~IpWhoAsn(w).ok THEN IpWhoAsn(w)
    ELSE Return(
    [out EXCEPT !.ip = Or(out.ip, Get(w, "ip")),
                !.city = Or(out.city, Get(w, "city")),
                !.region = Or(out.region, Get(w, "region")),
                !.country = Or(out.country, Get(w, "country")),
                !.lat = Or(out.lat, Get(w, "latitude")),
                !.lon = Or(out.lon, Get(w, "longitude")),
                !.isp = Or(Or(out.isp, OptGet(Get(w, "connection"), "isp")),
                           OptGet(Get(w, "connection"), "org")),
                !.org = Or(out.org, OptGet(Get(w, "connection"), "org")),
                !.asn = IF Truthy(out.asn) THEN out.asn ELSE IpWhoAsn(w).value,
                !.timezone = Or(out.timezone, OptGet(Get(w, "timezone"), "id"))])

\* sources['<name>'] = payload
SetSource(out, name, payload) ==
    [out EXCEPT !.sources = {e \in @ : e[1] # name} \cup {<<name, payload>>}]

\* The ip-api.com block of lookupIP: the payload is recorded, and its fields are
\* applied unless its status is 'fail'.  d.status throws on null.
IpApiStep(out, ipapi) ==
    IF ipapi.status # "fulfilled" THEN Return(out)
    ELSE IF ~CanGet(ipapi.value) THEN Throw("TypeError")
    ELSE IF Get(ipapi.value, "status") # Str(FailChars)
         THEN Return(ApplyIpApi(SetSource(out, IpApi, ipapi.value), ipapi.value))
         ELSE Return(SetSource(out, IpApi, ipapi.value))

\* The ipwho.is block of lookupIP: entered only when the payload's success is not
\* false.  ipwho.value.success throws on null.
IpWhoStep(out, ipwho) ==
    IF ipwho.status # "fulfilled" THEN Return(out)
    ELSE IF ~CanGet(ipwho.value) THEN Throw("TypeError")
    ELSE IF Get(ipwho.value, "success") # Bool(FALSE)
         THEN ApplyIpWho(SetSource(out, IpWho, ipwho.value), ipwho.value)
         ELSE Return(out)

\* The body of lookupIP after the join, on the two settled results in the order of
\* the array given to Promise.allSettled.
lookupIPBody(ipapi, ipwho) ==
    LET a == IpApiStep(EmptyIPLookup, ipapi)
    IN  IF a.ok THEN IpWhoStep(a.value, ipwho) ELSE a

------------------------------------------------------------------------------
\* Upstream answers of the two IP providers

IpApiKeys ==
    {"status", "query", "city", "regionName", "country", "lat", "lon", "isp",
     "org", "as", "reverse", "timezone"}

IpApiFull ==
    [k \in IpApiKeys |->
        CASE k = "status" -> Str(<<"s", "u", "c", "c", "e", "s", "s">>)
          [] k = "query" -> Str(<<"1", ".", "1", ".", "1", ".", "1">>)
          [] k = "city" -> Str(<<"P", "a", "r", "i", "s">>)
          [] k = "regionName" -> Str(<<"I", "D", "F">>)
          [] k = "country" -> Str(<<"F", "r", "a", "n", "c", "e">>)
          [] k = "lat" -> Num(48)
          [] k = "lon" -> Num(2)
          [] k = "isp" -> Str(<<"O", "r", "a", "n", "g", "e">>)
          [] k = "org" -> Str(<<"O", "V", "H", " ", "S", "A", "S">>)
          [] k = "as" -> Str(<<"A", "S", "1", "6", "2", "7", "6", " ", "O", "V", "H">>)
          [] k = "reverse" -> Str(<<"h", ".", "o", "v", "h", ".", "n", "e", "t">>)
          [] k = "timezone" -> Str(<<"E", "u", "r", "o", "p", "e", "/", "P", "a", "r", "i", "s">>)]

IpApiBare == [k \in IpApiKeys |-> Undef]

\* The falsy value of the type a field has: '' for text, 0 for a number.
FalsyLike(x) == IF x.t = "num" THEN Num(0) ELSE Str(<<>>)

\* ip-api.com payloads: the full one, the bare one, and each with one field changed
\* (a field of the full one missing or falsy, a single field of the bare one
\* present), each under status 'success' and under status 'fail'.
IpApiObjects ==
    LET shapes ==
            {IpApiFull, IpApiBare}
            \cup {[IpApiFull EXCEPT ![k] = x] :
                    k \in IpApiKeys \ {"status"}, x \in {Undef, Num(0), Str(<<>>)}}
            \cup {[IpApiBare EXCEPT ![k] = IpApiFull[k]] : k \in IpApiKeys \ {"status"}}
        kept == {f \in shapes :
                    \A k \in IpApiKeys \ {"status"} :
                        f[k] \in {Undef, IpApiFull[k], FalsyLike(IpApiFull[k])}}
    IN  {[f EXCEPT !["status"] = st] : f \in kept, st \in {Str(<<"s", "u", "c", "c", "e", "s", "s">>), Str(FailChars)}}
        \cup {IpApiBare}

IpApiResponses ==
    FailedResponses \cup {Json(Null), Json(Num(7)), Json(Arr(<<>>))} \cup {Json(Obj(f)) : f \in IpApiObjects}

IpWhoKeys ==
    {"success", "ip", "city", "region", "country", "latitude", "longitude",
     "connection", "timezone"}

ConnectionFull == [isp |-> Str(<<"F", "r", "e", "e">>), org |-> Str(<<"G", "o", "o", "g", "l", "e", " ", "L", "L", "C">>), asn |-> Num(15169)]
ConnectionBare == [isp |-> Undef, org |-> Undef, asn |-> Undef]

Connections ==
    {Obj(ConnectionFull), Obj(ConnectionBare), Undef, Null}
    \cup {Obj([ConnectionFull EXCEPT ![k] = x]) :
            k \in {"isp", "org", "asn"}, x \in {Undef}}
    \cup {Obj([ConnectionFull EXCEPT !.asn = x]) :
            x \in {Num(0), Str(<<"1", "5", "1", "6", "9">>), Arr(<<Num(15169)>>),
                   Obj([toString |-> Num(1)])}}
    \cup {Obj([ConnectionBare EXCEPT ![k] = ConnectionFull[k]]) : k \in {"isp", "org", "asn"}}

Timezones == {Obj([id |-> Str(<<"E", "u", "r", "o", "p", "e", "/", "R", "o", "m", "e">>)]), Obj([id |-> Undef]), Undef}

IpWhoFull ==
    [k \in IpWhoKeys |->
        CASE k = "success" -> Bool(TRUE)
          [] k = "ip" -> Str(<<"8", ".", "8", ".", "8", ".", "8">>)
          [] k = "city" -> Str(<<"L", "y", "o", "n">>)
          [] k = "region" -> Str(<<"A", "R", "A">>)
          [] k = "country" -> Str(<<"F", "R">>)
          [] k = "latitude" -> Num(45)
          [] k = "longitude" -> Num(4)
          [] k = "connection" -> Obj(ConnectionFull)
          [] k = "timezone" -> Obj([id |-> Str(<<"E", "u", "r", "o", "p", "e", "/", "R", "o", "m", "e">>)])]

IpWhoBare == [k \in IpWhoKeys |-> Undef]

IpWhoFlatKeys == {"ip", "city", "region", "country", "latitude", "longitude"}

\* ipwho.is payloads, built like the ip-api.com ones, each with success true and
\* with success false, and the bare one with no success field.
IpWhoObjects ==
    LET shapes ==
            {IpWhoFull, IpWhoBare}
            \cup {[IpWhoFull EXCEPT ![k] = x] :
                    k \in IpWhoFlatKeys, x \in {Undef, Num(0), Str(<<>>)}}
            \cup {[IpWhoFull EXCEPT !["connection"] = c] : c \in Connections}
            \cup {[IpWhoFull EXCEPT !["timezone"] = z] : z \in Timezones}
            \cup {[IpWhoBare EXCEPT ![k] = IpWhoFull[k]] : k \in IpWhoKeys \ {"success"}}
        kept == {f \in shapes :
                    \A k \in IpWhoFlatKeys :
                        f[k] \in {Undef, IpWhoFull[k], FalsyLike(IpWhoFull[k])}}
    IN  {[f EXCEPT !["success"] = ok] : f \in kept, ok \in {Bool(TRUE), Bool(FALSE)}}
        \cup {IpWhoBare}

IpWhoResponses ==
    FailedResponses \cup {Json(Null), Json(Num(7))} \cup {Json(Obj(f)) : f \in IpWhoObjects}

------------------------------------------------------------------------------
\* Invocations

DohTypes == {"A", "AAAA", "MX", "NS", "TXT", "DMARC"}
Rdap == "rdap"
DomainSources == DohTypes \cup {Rdap}
Platforms == <<"GitHub", "GitLab", "Reddit", "StackOverflow">>
UsernameSources == {Platforms[i] : i \in 1..4}
Sources == IPSources \cup DomainSources \cup UsernameSources

NoPrev == [order |-> <<>>, pc |-> "none", out |-> Undef]

Idle == [kind |-> "none", input |-> <<>>, pc |-> "idle", out |-> Undef]

\* No second invocation has been made.
NoPeer ==
    [call |-> Idle, task |-> [s \in Sources |-> NotStarted], arrival |-> <<>>,
     issued |-> [s \in Sources |-> 0]]

\* The search form before any search: the state of the component after its
\* first render, the number of submissions, and the type and query that the
\* last run of handleSearch captured, with the PhoneNumber it parsed.
NoSearch ==
    [searchType |-> "ip", searchQuery |-> <<>>, isLoading |-> FALSE,
     results |-> <<>>, searchHistory |-> <<>>, toast |-> Undef, phone |-> Undef,
     searches |-> 0, submitted |-> [searchType |-> "ip", q |-> <<>>]]

InitCall ==
    /\ call = Idle
    /\ task = [s \in Sources |-> NotStarted]
    /\ arrival = <<>>
    /\ issued = [s \in Sources |-> 0]
    /\ prev = NoPrev
    /\ peer = NoPeer
    /\ ui = NoSearch

\* The sources the invocation in progress has a task for.
CallSources ==
    CASE call.kind = "ip" -> IPSources
      [] call.kind \in {"domain", "email"} -> DomainSources
      [] call.kind = "username" -> UsernameSources
      [] OTHER -> {}

\* The invocation in progress has sent the request of each of its sources.
RequestsIssued == \A s \in CallSources : issued[s] = 1

\* The caller makes one invocation at a time.
CanInvoke == call.pc = "idle"

\* The caller is done with a completed invocation and may make the next one.  The
\* outcome of a lookupIP is remembered, with the order in which its providers
\* settled.
NextSearch ==
    /\ call.pc \in {"returned", "rejected"}
    /\ call' = Idle
    /\ task' = [s \in Sources |-> NotStarted]
    /\ issued' = [s \in Sources |-> 0]
    /\ arrival' = <<>>
    /\ prev' = IF call.kind = "ip"
               THEN [order |-> arrival, pc |-> call.pc, out |-> call.out]
               ELSE prev
    /\ UNCHANGED <<upstream, peer, ui>>

\* The invocation completes: it returns r.value or rejects with it.
Complete(r) ==
    call' = [call EXCEPT !.pc = IF r.ok THEN "returned" ELSE "rejected",
                         !.out = r.value]

IPInputs == {<<"1", ".", "1", ".", "1", ".", "1">>, <<"x">>, <<"1", LoneSurrogate>>}

\* lookupIP(ip) up to its await: the two request URLs are built, which throws on
\* an ip that encodeURIComponent does not take, and both requests are issued at
\* once.
InvokeIP(ip) ==
    /\ CanInvoke
    /\ IF encodeURIComponent(ip).ok
       THEN /\ call' = [kind |-> "ip", input |-> ip, pc |-> "pending", out |-> Undef]
            /\ task' = [s \in Sources |-> IF s \in IPSources THEN Pending ELSE NotStarted]
            /\ issued' = [s \in Sources |-> IF s \in IPSources THEN 1 ELSE 0]
       ELSE /\ call' = [kind |-> "ip", input |-> ip, pc |-> "rejected",
                        out |-> encodeURIComponent(ip).value]
            /\ task' = [s \in Sources |-> NotStarted]
            /\ issued' = [s \in Sources |-> 0]

\* lookupIP(ip) is invoked on its own, outside the search form.
CallLookupIP(ip) ==
    /\ InvokeIP(ip)
    /\ UNCHANGED <<upstream, arrival, prev, peer, ui>>

\* The upstream answers one of the two requests of lookupIP.
SettleIP(s) ==
    /\ call.kind = "ip"
    /\ task[s].status = "pending"
    /\ task' = [task EXCEPT ![s] = fetchJSON(upstream[s])]
    /\ arrival' = Append(arrival, s)
    /\ issued' = requestsAfter(s, fetchJSON(upstream[s]))
    /\ UNCHANGED <<upstream, call, prev, peer, ui>>

\* Mutant of IPSettledResults: the results in the order of settling.
IPSettledResultsByArrival == <<task[arrival[1]], task[arrival[2]]>>

\* const [ipapi, ipwho] = await Promise.allSettled([...]): the results are in the
\* order of the array, whatever the order of settling.
IPSettledResults == <<task[IpApi], task[IpWho]>>

\* lookupIP resumes once both requests have settled.
ReturnLookupIP ==
    /\ call.kind = "ip"
    /\ call.pc = "pending"
    /\ \A s \in IPSources : Settled(task[s])
    /\ Complete(lookupIPBody(IPSettledResults[1], IPSettledResults[2]))
    /\ UNCHANGED <<upstream, task, arrival, issued, prev, peer, ui>>

IPUpstreams ==
    {[s \in Sources |->
        IF s = IpApi THEN a ELSE IF s = IpWho THEN b ELSE TransportFailure] :
        a \in IpApiResponses, b \in IpWhoResponses}

InitIP == upstream \in IPUpstreams /\ InitCall

NextIP ==
    \/ \E ip \in IPInputs : CallLookupIP(ip)
    \/ \E s \in IPSources : SettleIP(s)
    \/ ReturnLookupIP
    \/ NextSearch

SpecIP == InitIP /\ [][NextIP]_vars

------------------------------------------------------------------------------
\* Claims about lookupIP (checked under SpecIP)

IPDone == call.kind = "ip" /\ call.pc \in {"returned", "rejected"}
IPReturned == call.kind = "ip" /\ call.pc = "returned"

\* A non-empty text value.
NonEmptyText(x) == x.t = "str" /\ Len(x.v) > 0

\* The text fields of the record and the ip-api.com key each is read from.
IpApiTextKey ==
    [f \in {"ip", "city", "region", "country", "isp", "org", "asn", "timezone"} |->
        CASE f = "ip" -> "query"
          [] f = "region" -> "regionName"
          [] f = "asn" -> "as"
          [] OTHER -> f]

\* The ipwho.is counterpart of a text field of the record.
IpWhoTextValue(w, f) ==
    CASE f \in {"ip", "city", "region", "country"} -> Get(w, f)
      [] f \in {"isp", "org", "asn"} -> OptGet(Get(w, "connection"), f)
      [] f = "timezone" -> OptGet(Get(w, "timezone"), "id")

\* ip-api.com answered with a payload whose status is not 'fail'.
IpApiUsable ==
    /\ upstream[IpApi].kind = "json"
    /\ upstream[IpApi].payload.t = "obj"
    /\ Get(upstream[IpApi].payload, "status") # Str(FailChars)

\* C1: lookupIP never rejects, whatever each provider answers (transport failure,
\* non-success status, undecodable body, malformed payload such as null), and a
\* malformed payload of one provider does not keep the other's fields out of the
\* record.
C1_LookupIPNeverRejects ==
    (call.kind = "ip" /\ RequestsIssued) => call.pc # "rejected"

\* C6: when ip-api.com succeeded with a status other than 'fail' and gives a
\* non-empty ip, city, region, country, isp, org, asn or timezone, the returned
\* record has that value, whatever ipwho.is gives for the field.
C6_PrecedenceLaw ==
    (IPReturned /\ IpApiUsable) =>
        \A f \in DOMAIN IpApiTextKey :
            NonEmptyText(Get(upstream[IpApi].payload, IpApiTextKey[f])) =>
                call.out[f] = Get(upstream[IpApi].payload, IpApiTextKey[f])

\* Both providers give a different non-empty value for every text field, and the
\* record was returned.
C6_Witness ==
    /\ IPReturned
    /\ IpApiUsable
    /\ upstream[IpWho].kind = "json"
    /\ upstream[IpWho].payload.t = "obj"
    /\ Get(upstream[IpWho].payload, "success") = Bool(TRUE)
    /\ \A f \in DOMAIN IpApiTextKey :
        /\ NonEmptyText(Get(upstream[IpApi].payload, IpApiTextKey[f]))
        /\ Truthy(IpWhoTextValue(upstream[IpWho].payload, f))
        /\ IpWhoTextValue(upstream[IpWho].payload, f)
             # Get(upstream[IpApi].payload, IpApiTextKey[f])
    /\ call.out.city = Str(<<"P", "a", "r", "i", "s">>)

\* C7: the outcome of lookupIP depends on the two providers' answers only, not on
\* the order in which they settled: a lookupIP completed after an earlier one, on
\* the same answers, completes the same way with the same record.
C7_OrderIndependent ==
    (IPDone /\ Len(arrival) = 2 /\ Len(prev.order) = 2) =>
        (call.pc = prev.pc /\ call.out = prev.out)

\* Two lookupIP calls whose providers settled in opposite orders, both providers
\* giving a different city, returned.
C7_Witness ==
    /\ IPReturned
    /\ prev.pc = "returned"
    /\ prev.order = <<IpWho, IpApi>>
    /\ arrival = <<IpApi, IpWho>>
    /\ IpApiUsable
    /\ NonEmptyText(Get(upstream[IpApi].payload, "city"))
    /\ upstream[IpWho].kind = "json"
    /\ NonEmptyText(OptGet(upstream[IpWho].payload, "city"))
    /\ OptGet(upstream[IpWho].payload, "success") # Bool(FALSE)

\* C8: when both provider requests fail, the returned record has no scalar field
\* and an empty sources mapping.
C8_BothFailEmpty ==
    (IPDone /\ RequestsIssued /\ \A s \in IPSources : upstream[s] \in FailedResponses) =>
        /\ call.pc = "returned"
        /\ \A f \in ScalarFields : call.out[f] = Undef
        /\ call.out.sources = {}

\* One request failed in transport, the other with a non-success status, and
\* lookupIP returned.
C8_Witness ==
    /\ IPReturned
    /\ upstream[IpApi] = TransportFailure
    /\ upstream[IpWho] = HttpFailure
    /\ task[IpApi].status = "rejected"
    /\ task[IpWho].status = "rejected"

\* C9: the returned record's sources holds the decoded payload of every provider
\* whose request succeeded, under the provider's name, also when the payload
\* carries the provider's own failure indicator; a provider whose request failed
\* has no entry.
C9_SourcesRetained ==
    IPReturned =>
        \A s \in IPSources :
            /\ upstream[s].kind = "json" => <<s, upstream[s].payload>> \in call.out.sources
            /\ upstream[s].kind # "json" => \A e \in call.out.sources : e[1] # s

------------------------------------------------------------------------------
\* DNS Resolver Adapter and Domain Aggregator

\* dohResolve: json.Answer || [] when the request succeeds, [] when fetchJSON
\* rejects or reading json.Answer throws (a null body); it never rejects.
dohResolve(resp) ==
    LET r == fetchJSON(resp)
    IN  IF r.status = "fulfilled" /\ CanGet(r.value)
        THEN Fulfilled(Or(Get(r.value, "Answer"), Arr(<<>>)))
        ELSE Fulfilled(Arr(<<>>))

\* The RDAP task: the decoded body, or null when fetchJSON rejects.
rdapLookup(resp) ==
    LET r == fetchJSON(resp)
    IN  IF r.status = "fulfilled" THEN Fulfilled(r.value) ELSE Fulfilled(Null)

\* answers.map((r) => ... r.data ...) runs through: answers is an array (anything
\* else has no map method) and no element is null or undefined.
CanMapData(answers) ==
    /\ answers.t = "arr"
    /\ \A i \in 1..Len(answers.v) : CanGet(answers.v[i])

\* answers.map((r) => r.data)
DataOf(answers) == [i \in 1..Len(answers.v) |-> Get(answers.v[i], "data")]

\* String(x), and the conversion a regular expression applies to its argument.
ToStringChars(x) == TemplateChars(x)

\* The data of every answer can be converted to text.
CanConvertData(answers) ==
    \A i \in 1..Len(answers.v) : CanToString(Get(answers.v[i], "data"))

\* a.map((r) => r.data).filter(Boolean)
parseAddresses(answers) == SelectSeq(DataOf(answers), Truthy)

\* /^(\d+)\s+(.+)\.?$/.exec(s): the digits and the text captured, when s matches.
\* \d+ and \s+ take the longest runs; (.+) takes all the rest, its trailing dot
\* included, or the last whitespace character when nothing follows the
\* whitespace; . matches no line terminator.
MxExec(s) ==
    LET nd == LeadingCount(s, DigitSet)
        afterDigits == SubSeq(s, nd + 1, Len(s))
        ws == LeadingCount(afterDigits, WhiteSpaceChars)
        rest == SubSeq(afterDigits, ws + 1, Len(afterDigits))
        captured == IF rest # <<>> THEN rest
                    ELSE IF ws >= 2 THEN <<afterDigits[ws]>> ELSE <<>>
    IN  [matched |-> /\ nd >= 1
                     /\ ws >= 1
                     /\ captured # <<>>
                     /\ \A i \in 1..Len(captured) : captured[i] \notin LineTerminators,
         digits |-> SubSeq(s, 1, nd),
         text |-> captured]

\* The MX entry of one answer, or null.
parseMXRecord(data) ==
    LET m == MxExec(ToStringChars(data).value)
    IN  IF m.matched
        THEN [matched |-> TRUE,
              mx |-> [priority |-> CharsToNat(m.digits),
                      exchange |-> StripTrailingDot(m.text)]]
        ELSE [matched |-> FALSE, mx |-> [priority |-> 0, exchange |-> <<>>]]

\* mx.map(...).filter(Boolean)
parseMX(answers) ==
    LET parsed == [i \in 1..Len(answers.v) |-> parseMXRecord(Get(answers.v[i], "data"))]
        kept == SelectSeq(parsed, LAMBDA p : p.matched)
    IN  [i \in 1..Len(kept) |-> kept[i].mx]

\* ns.map((r) => String(r.data).replace(/\.$/, '')).filter(Boolean)
parseNS(answers) ==
    LET stripped == [i \in 1..Len(answers.v) |->
                        StripTrailingDot(ToStringChars(Get(answers.v[i], "data")).value)]
    IN  SelectSeq(stripped, LAMBDA t : t # <<>>)

\* parseTXT: the text data with one leading and one trailing quote removed, data
\* that is not text and empty results dropped.
parseTXT(answers) ==
    LET texts == [i \in 1..Len(answers.v) |->
                    IF Get(answers.v[i], "data").t = "str"
                    THEN StripQuotes(Get(answers.v[i], "data").v)
                    ELSE <<>>]
    IN  SelectSeq(texts, LAMBDA t : t # <<>>)

DmarcTag == <<"v", "=", "d", "m", "a", "r", "c">>
SpfTag == <<"v", "=", "s", "p", "f", "1">>

\* Mutant of findDmarc: the last text with the tag is taken.
findDmarcLast(texts) ==
    LET hits == SelectSeq(texts, LAMBDA t : Includes(ToLowerCase(t), DmarcTag))
    IN  IF hits = <<>> THEN Null ELSE Str(hits[Len(hits)])

\* parseTXT(dmarcTxt).find((t) => t.toLowerCase().includes('v=dmarc')) || null
findDmarc(texts) ==
    LET hits == SelectSeq(texts, LAMBDA t : Includes(ToLowerCase(t), DmarcTag))
    IN  IF hits = <<>> THEN Null ELSE Str(hits[1])

\* Mutant of hasSpf: the tag is searched in the text as it is.
hasSpfCaseSensitive(texts) == \E i \in 1..Len(texts) : Includes(texts[i], SpfTag)

\* parseTXT(txt).some((t) => t.toLowerCase().includes('v=spf1'))
hasSpf(texts) == \E i \in 1..Len(texts) : Includes(ToLowerCase(texts[i]), SpfTag)

\* The body of lookupDomain after the join, on the seven results.  Mapping over
\* an Answer value that is not an array, reading data of a null element, or
\* converting to text MX or NS data that cannot be converted, throws.
lookupDomainBody(domain, r) ==
    IF \/ \E t \in DohTypes : ~CanMapData(r[t].value)
       \/ ~CanConvertData(r["MX"].value)
       \/ ~CanConvertData(r["NS"].value)
    THEN Throw("TypeError")
    ELSE Return([domain |-> domain,
                 a |-> parseAddresses(r["A"].value),
                 aaaa |-> parseAddresses(r["AAAA"].value),
                 mx |-> parseMX(r["MX"].value),
                 ns |-> parseNS(r["NS"].value),
                 txt |-> parseTXT(r["TXT"].value),
                 dmarc |-> findDmarc(parseTXT(r["DMARC"].value)),
                 spf |-> hasSpf(parseTXT(r["TXT"].value)),
                 rdap |-> r[Rdap].value])

------------------------------------------------------------------------------
\* Upstream answers of the DoH endpoint and of the RDAP aggregator

Answer(data) == Obj([data |-> data])
DohJson(answers) == Json(Obj([Answer |-> answers]))

\* The data of a well-formed answer of each record type, and of a second one.
GoodData ==
    [t \in DohTypes |->
        CASE t = "A" -> Str(<<"1", ".", "2", ".", "3", ".", "4">>)
          [] t = "AAAA" -> Str(<<":", ":", "1">>)
          [] t = "MX" -> Str(<<"1", "0", " ", "m", "x", ".", "a", ".", "i", "o", ".">>)
          [] t = "NS" -> Str(<<"n", "s", "1", ".", "a", ".", "i", "o", ".">>)
          [] t = "TXT" -> Str(<<"\"", "v", "=", "s", "p", "f", "1", " ", "-", "a", "l", "l", "\"">>)
          [] t = "DMARC" -> Str(<<"\"", "v", "=", "D", "M", "A", "R", "C", "1", ";", " ", "p", "=", "r", "e", "j", "e", "c", "t", "\"">>)]

OtherData ==
    [t \in DohTypes |->
        CASE t = "A" -> Str(<<"5", ".", "6", ".", "7", ".", "8">>)
          [] t = "AAAA" -> Str(<<":", ":", "2">>)
          [] t = "MX" -> Str(<<"5", " ", "m", "x", "2", ".", "a", ".", "i", "o">>)
          [] t = "NS" -> Str(<<".">>)
          [] t = "TXT" -> Str(<<"\"", "h", "e", "l", "l", "o", "\"">>)
          [] t = "DMARC" -> Str(<<"\"", "v", "=", "s", "p", "f", "1", " ", "-", "a", "l", "l", "\"">>)]

\* The values of Answer: absent, not an array, and arrays of well-formed answers,
\* of answers without data or with data that is not text, and of null; for MX
\* also an answer whose data is digits followed by whitespace only, and one whose
\* whitespace is a form feed; for TXT
\* also an SPF policy in capitals and a DMARC policy published at the base name;
\* for _dmarc also two DMARC policies.
DohAnswers(t) ==
    (IF t = "MX" THEN {Arr(<<Answer(Str(<<"1", "0", " ", " ">>))>>),
                       Arr(<<Answer(Str(<<"1", "0", "\f", "m", "x", ".", "a", ".", "i", "o", ".">>))>>)}
     ELSE {})
    \cup
    (IF t = "TXT" THEN {Arr(<<Answer(Str(<<"V", "=", "S", "P", "F", "1", " ", "-", "a", "l", "l">>))>>), Arr(<<Answer(Str(<<"v", "=", "D", "M", "A", "R", "C", "1", ";", " ", "p", "=", "n", "o", "n", "e">>))>>)}
     ELSE {})
    \cup
    (IF t = "DMARC" THEN {Arr(<<Answer(Str(<<"v", "=", "D", "M", "A", "R", "C", "1", ";", " ", "p", "=", "n", "o", "n", "e">>)), Answer(GoodData[t])>>)} ELSE {})
    \cup
    {Undef, Str(<<"x">>), Arr(<<>>),
     Arr(<<Answer(GoodData[t])>>),
     Arr(<<Answer(OtherData[t])>>),
     Arr(<<Answer(OtherData[t]), Answer(GoodData[t])>>),
     Arr(<<Answer(Undef)>>),
     Arr(<<Answer(Str(<<>>)), Answer(GoodData[t])>>),
     Arr(<<Answer(Num(5))>>),
     Arr(<<Null>>),
     Arr(<<Answer(GoodData[t]), Null>>)}

DohResponses(t) ==
    FailedResponses \cup {Json(Null), Json(Num(7))} \cup {DohJson(x) : x \in DohAnswers(t)}

RdapResponses ==
    FailedResponses \cup {Json(Null), Json(Obj([handle |-> Str(<<"A", ".", "I", "O">>)]))}

DomainResponses(s) == IF s = Rdap THEN RdapResponses ELSE DohResponses(s)

\* The upstream conditions a domain lookup starts from: every request failing
\* (in transport, or by status), every answer empty, every answer well-formed.
DomainBases ==
    {[s \in DomainSources |-> TransportFailure],
     [s \in DomainSources |-> HttpFailure],
     [s \in DomainSources |-> IF s = Rdap THEN Json(Null) ELSE DohJson(Undef)],
     [s \in DomainSources |->
        IF s = Rdap THEN Json(Obj([handle |-> Str(<<"A", ".", "I", "O">>)]))
        ELSE DohJson(Arr(<<Answer(GoodData[s])>>))]}

\* Each base, and each base with the answer of one source replaced.
DomainConditions ==
    DomainBases
    \cup UNION {{[b EXCEPT ![s] = r] : r \in DomainResponses(s)} :
                    b \in DomainBases, s \in DomainSources}

DomainUpstreams ==
    {[s \in Sources |-> IF s \in DomainSources THEN c[s] ELSE TransportFailure] :
        c \in DomainConditions}

DomainInputs == {<<"a", ".", "i", "o">>, <<"a", LoneSurrogate>>}

\* The seven promises lookupDomain(domain) hands to Promise.all.  Building the
\* request URL throws on a name that encodeURIComponent does not take: outside
\* the try of dohResolve, whose promise is then rejected, and inside the try of
\* the RDAP task, which then gives null; no request is issued.
domainTasks(domain) ==
    [s \in Sources |->
        IF s \notin DomainSources THEN NotStarted
        ELSE IF encodeURIComponent(domain).ok THEN Pending
        ELSE IF s = Rdap THEN Fulfilled(Null)
        ELSE Rejected]

domainRequests(domain) ==
    [s \in Sources |->
        IF s \in DomainSources /\ encodeURIComponent(domain).ok THEN 1 ELSE 0]

\* lookupDomain(domain) up to its await: the six DoH queries and the RDAP lookup
\* are issued at once.
InvokeDomain(domain) ==
    /\ CanInvoke
    /\ call' = [kind |-> "domain", input |-> domain, pc |-> "pending", out |-> Undef]
    /\ task' = domainTasks(domain)
    /\ issued' = domainRequests(domain)

\* lookupDomain(domain) is invoked on its own, outside the search form.
CallLookupDomain(domain) ==
    /\ InvokeDomain(domain)
    /\ UNCHANGED <<upstream, arrival, prev, peer, ui>>

\* The upstream answers one of the DoH queries: its dohResolve settles.
SettleDoh(t) ==
    /\ call.kind \in {"domain", "email"}
    /\ task[t].status = "pending"
    /\ task' = [task EXCEPT ![t] = dohResolve(upstream[t])]
    /\ issued' = requestsAfter(t, fetchJSON(upstream[t]))
    /\ UNCHANGED <<upstream, call, arrival, prev, peer, ui>>

\* The upstream answers the RDAP lookup.
SettleRdap ==
    /\ call.kind \in {"domain", "email"}
    /\ task[Rdap].status = "pending"
    /\ task' = [task EXCEPT ![Rdap] = rdapLookup(upstream[Rdap])]
    /\ issued' = requestsAfter(Rdap, fetchJSON(upstream[Rdap]))
    /\ UNCHANGED <<upstream, call, arrival, prev, peer, ui>>

\* await Promise.all([...]): rejects as soon as one of the promises has rejected,
\* and otherwise resumes when all have fulfilled.
PromiseAllRejects(S) == \E s \in S : task[s].status = "rejected"
PromiseAllFulfils(S) == \A s \in S : task[s].status = "fulfilled"
PromiseAllSettles(S) == IF PromiseAllRejects(S) THEN TRUE ELSE PromiseAllFulfils(S)

\* What lookupDomain completes with once Promise.all has settled: the reason of
\* the rejected promise (a dohResolve rejects on building its URL only), or the
\* record built from the seven values.
lookupDomainResult(domain) ==
    IF PromiseAllRejects(DomainSources) THEN encodeURIComponent(domain)
    ELSE lookupDomainBody(domain, task)

\* lookupDomain resumes.
ReturnLookupDomain ==
    /\ call.kind = "domain"
    /\ call.pc = "pending"
    /\ PromiseAllSettles(DomainSources)
    /\ Complete(lookupDomainResult(call.input))
    /\ UNCHANGED <<upstream, task, arrival, issued, prev, peer, ui>>

InitDomain == upstream \in DomainUpstreams /\ InitCall

NextDomain ==
    \/ \E d \in DomainInputs : CallLookupDomain(d)
    \/ \E t \in DohTypes : SettleDoh(t)
    \/ SettleRdap
    \/ ReturnLookupDomain
    \/ NextSearch

SpecDomain == InitDomain /\ [][NextDomain]_vars

\* Claims about lookupDomain (checked under SpecDomain)

DomainDone == call.kind = "domain" /\ call.pc \in {"returned", "rejected"}

\* The record of a domain nothing is known about.
WorstCaseRecord(domain) ==
    [domain |-> domain, a |-> <<>>, aaaa |-> <<>>, mx |-> <<>>, ns |-> <<>>,
     txt |-> <<>>, dmarc |-> Null, spf |-> FALSE, rdap |-> Null]

\* C2: lookupDomain never rejects, whatever its seven calls meet (transport
\* failure, non-success status, undecodable body, an Answer that is not an
\* array, an answer that is null or has no data).
C2_LookupDomainNeverRejects ==
    (call.kind = "domain" /\ RequestsIssued) => call.pc # "rejected"

------------------------------------------------------------------------------
\* Email Aggregator

\* The longest address of the model.
MaxEmailLen == 3

EmailChars == {"a", "B", "@", " "}

RECURSIVE SeqsUpTo(_, _)
\* The sequences over S of length at most n.
SeqsUpTo(S, n) ==
    IF n = 0 THEN {<<>>}
    ELSE LET shorter == SeqsUpTo(S, n - 1)
         IN  shorter \cup {Append(t, c) : t \in shorter, c \in S}

\* Every short address, one that ends in a form feed, and one whose domain is
\* the capital I with a dot above, which lower case turns into two characters.
EmailInputs ==
    SeqsUpTo(EmailChars, MaxEmailLen)
    \cup {<<"a", "@", "B", "\f">>, <<"a", "@", "\\u0130">>}

\* The index of the first occurrence of c in s at or after index from, or 0.
IndexFrom(s, c, from) ==
    IF \E i \in from..Len(s) : s[i] = c
    THEN CHOOSE i \in from..Len(s) : s[i] = c /\ \A j \in from..(i - 1) : s[j] # c
    ELSE 0

\* email.split('<<"'", ")", "[", "1", "]", ":", " ", "t", "h", "e", " ", "t", "e", "x", "t", " ", "b", "e", "t", "w", "e", "e", "n", " ", "t", "h", "e", " ", "f", "i", "r", "s", "t", " ", "'">>' and the next one (or the
\* end); undefined when there is no '@'.
SplitAtSecond(email) ==
    LET first == IndexFrom(email, "@", 1)
        next == IndexFrom(email, "@", first + 1)
    IN  IF first = 0 THEN Undef
        ELSE Str(SubSeq(email, first + 1, IF next = 0 THEN Len(email) ELSE next - 1))

\* Mutant of emailDomain: the segment before the '@' is taken (split('@')[0]).
emailDomainLocalPart(email) ==
    LET first == IndexFrom(email, "@", 1)
    IN  Str(ToLowerCase(Trim(SubSeq(email, 1, IF first = 0 THEN Len(email) ELSE first - 1))))

\* email.split('@')[1]?.trim().toLowerCase()
emailDomain(email) ==
    IF SplitAtSecond(email) = Undef THEN Undef
    ELSE Str(ToLowerCase(Trim(SplitAtSecond(email).v)))

TxtSampleCount == 5

\* /p=([^;\s]+)/i.exec(s)?.[1]: the run of characters other than ';' and
\* whitespace that follows the first 'p=' (in either case) followed by such a
\* character; undefined when there is none.
PolicyExec(s) ==
    LET Stop == WhiteSpaceChars \cup {";"}
        Starts(i) == /\ i + 2 <= Len(s)
                     /\ s[i] \in {"p", "P"}
                     /\ s[i + 1] = "="
                     /\ s[i + 2] \notin Stop
    IN  IF \E i \in 1..Len(s) : Starts(i)
        THEN LET i == CHOOSE k \in 1..Len(s) : Starts(k) /\ \A j \in 1..(k - 1) : ~Starts(j)
                 tail == SubSeq(s, i + 2, Len(s))
                 run == CHOOSE k \in 1..Len(tail) :
                            /\ \A j \in 1..k : tail[j] \notin Stop
                            /\ (k = Len(tail) \/ tail[k + 1] \in Stop)
             IN  Str(SubSeq(tail, 1, run))
        ELSE Undef

\* Mutant of emailRecord: every TXT entry is given as a sample.
emailRecordAllTxt(email, domain, dom) ==
    [email |-> email,
     domain |-> domain,
     hasMX |-> Len(dom.mx) > 0,
     hasSPF |-> dom.spf,
     hasDMARC |-> Truthy(dom.dmarc),
     dmarcPolicy |-> IF Truthy(dom.dmarc) THEN Or(PolicyExec(dom.dmarc.v), Null) ELSE Null,
     txtSamples |-> dom.txt]

\* The record lookupEmail builds from the DomainRecord.
emailRecord(email, domain, dom) ==
    [email |-> email,
     domain |-> domain,
     hasMX |-> Len(dom.mx) > 0,
     hasSPF |-> dom.spf,
     hasDMARC |-> Truthy(dom.dmarc),
     dmarcPolicy |-> IF Truthy(dom.dmarc) THEN Or(PolicyExec(dom.dmarc.v), Null) ELSE Null,
     txtSamples |-> SubSeq(dom.txt, 1, IF Len(dom.txt) < TxtSampleCount
                                        THEN Len(dom.txt) ELSE TxtSampleCount)]

\* lookupEmail(email) up to its await: it throws 'Invalid email' before any
\* request when the derived domain is undefined or empty, and otherwise calls
\* lookupDomain, which issues its seven requests.
InvokeEmail(email) ==
    /\ CanInvoke
    /\ IF Truthy(emailDomain(email))
       THEN /\ call' = [kind |-> "email", input |-> email, pc |-> "pending", out |-> Undef]
            /\ task' = domainTasks(emailDomain(email).v)
            /\ issued' = domainRequests(emailDomain(email).v)
       ELSE /\ call' = [kind |-> "email", input |-> email, pc |-> "rejected",
                        out |-> Error("Invalid email")]
            /\ task' = [s \in Sources |-> NotStarted]
            /\ issued' = [s \in Sources |-> 0]

\* lookupEmail(email) is invoked on its own, outside the search form.
CallLookupEmail(email) ==
    /\ InvokeEmail(email)
    /\ UNCHANGED <<upstream, arrival, prev, peer, ui>>

\* What lookupEmail completes with once its lookupDomain has: a rejection of
\* lookupDomain is not caught.
lookupEmailResult(email) ==
    LET dom == lookupDomainResult(emailDomain(email).v)
    IN  IF dom.ok THEN Return(emailRecord(email, emailDomain(email).v, dom.value))
        ELSE dom

\* lookupEmail resumes.
ReturnLookupEmail ==
    /\ call.kind = "email"
    /\ call.pc = "pending"
    /\ PromiseAllSettles(DomainSources)
    /\ Complete(lookupEmailResult(call.input))
    /\ UNCHANGED <<upstream, task, arrival, issued, prev, peer, ui>>

\* A DMARC value whose sp tag comes before its p tag, and one with no p tag.
SubdomainPolicyFirst == Str(<<"\"", "v", "=", "D", "M", "A", "R", "C", "1", ";", " ", "s", "p", "=", "n", "o", "n", "e", ";", " ", "p", "=", "r", "e", "j", "e", "c", "t", "\"">>)
NoPolicyTag == Str(<<"\"", "v", "=", "D", "M", "A", "R", "C", "1", ";", " ", "r", "u", "a", "=", "m", "a", "i", "l", "t", "o", ":", "x", "@", "a", ".", "i", "o", "\"">>)

\* A DMARC value whose p tag is followed by a form feed.
FormFeedAfterPolicy == Str(<<"v", "=", "D", "M", "A", "R", "C", "1", ";", " ", "p", "=", "n", "o", "n", "e", "\f", "s", "p", "=", "r", "e", "j", "e", "c", "t">>)

\* Six TXT answers, more than lookupEmail samples.
ManyTxtAnswers ==
    Arr([i \in 1..(TxtSampleCount + 1) |-> Answer(Str(<<"\"", "t", DigitChars[i + 1], "\"">>))])

\* Further answers of the _dmarc TXT and the TXT query.
EmailAnswers(s) ==
    CASE s = "DMARC" -> {DohJson(Arr(<<Answer(SubdomainPolicyFirst)>>)),
                         DohJson(Arr(<<Answer(NoPolicyTag)>>)),
                         DohJson(Arr(<<Answer(FormFeedAfterPolicy)>>))}
      [] s = "TXT" -> {DohJson(ManyTxtAnswers)}
      [] OTHER -> {}

\* The upstream conditions of the email lookups: the bases of the domain lookups,
\* and each with the MX, TXT or _dmarc TXT answer replaced.
EmailConditions ==
    DomainBases
    \cup UNION {{[b EXCEPT ![s] = r] :
                    r \in {DohJson(Arr(<<>>)), DohJson(Arr(<<Null>>)),
                           DohJson(Arr(<<Answer(OtherData[s]), Answer(GoodData[s])>>))}
                          \cup EmailAnswers(s)} :
                    b \in DomainBases, s \in {"MX", "TXT", "DMARC"}}

EmailUpstreams ==
    {[s \in Sources |-> IF s \in DomainSources THEN c[s] ELSE TransportFailure] :
        c \in EmailConditions}

InitEmail == upstream \in EmailUpstreams /\ InitCall

NextEmail ==
    \/ \E e \in EmailInputs : CallLookupEmail(e)
    \/ \E t \in DohTypes : SettleDoh(t)
    \/ SettleRdap
    \/ ReturnLookupEmail
    \/ NextSearch

SpecEmail == InitEmail /\ [][NextEmail]_vars

\* Claims about lookupEmail (checked under SpecEmail)

HasAt(email) == \E i \in 1..Len(email) : email[i] = "@"

NoRequestIssued == \A s \in Sources : issued[s] = 0 /\ task[s].status = "none"

RejectedInvalidEmail == call.pc = "rejected" /\ call.out = Error("Invalid email")

\* C4: for an address with no '@', lookupEmail rejects with the invalid-email
\* failure, and no request has been issued for the call when it rejects or later.
C4_NoAtRejectsBeforeNetwork ==
    (call.kind = "email" /\ ~HasAt(call.input)) =>
        (RejectedInvalidEmail /\ NoRequestIssued)

\* A non-empty address without '@' was looked up.
C4_Witness ==
    /\ call.kind = "email"
    /\ call.input = <<"a", "B", "a">>
    /\ call.pc = "rejected"

\* C5: an address that contains an '@' is never rejected, whatever follows the
\* '@': lookupEmail does not fail with the invalid-email failure, it goes on to
\* the domain lookup and completes by returning the EmailRecord of the address.
C5_AtNeverInvalid ==
    (call.kind = "email" /\ HasAt(call.input)) =>
        /\ ~RejectedInvalidEmail
        /\ call.pc # "rejected"
        /\ call.pc = "returned" => call.out.email = call.input

------------------------------------------------------------------------------
\* Username Prober

GitHub == Platforms[1]
GitLab == Platforms[2]
Reddit == Platforms[3]
StackOverflow == Platforms[4]

\* The profile URL of each platform.  The StackOverflow one goes through
\* encodeURIComponent and throws when it does.
profileUrl(platform, username) ==
    CASE platform = GitHub -> Return(<<"h", "t", "t", "p", "s", ":", "/", "/", "g", "i", "t", "h", "u", "b", ".", "c", "o", "m", "/">> \o username)
      [] platform = GitLab -> Return(<<"h", "t", "t", "p", "s", ":", "/", "/", "g", "i", "t", "l", "a", "b", ".", "c", "o", "m", "/">> \o username)
      [] platform = Reddit -> Return(<<"h", "t", "t", "p", "s", ":", "/", "/", "w", "w", "w", ".", "r", "e", "d", "d", "i", "t", ".", "c", "o", "m", "/", "u", "s", "e", "r", "/">> \o username)
      [] platform = StackOverflow ->
            IF encodeURIComponent(username).ok
            THEN Return(<<"h", "t", "t", "p", "s", ":", "/", "/", "s", "t", "a", "c", "k", "o", "v", "e", "r", "f", "l", "o", "w", ".", "c", "o", "m", "/", "u", "s", "e", "r", "s", "?", "t", "a", "b", "=", "R", "e", "p", "u", "t", "a", "t", "i", "o", "n", "&", "s", "e", "a", "r", "c", "h", "=">>
                        \o encodeURIComponent(username).value)
            ELSE encodeURIComponent(username)

Profile(platform, exists, url, data) ==
    [platform |-> platform, exists |-> exists, url |-> url, data |-> data]

\* arr.find((x) => String(x[key]).toLowerCase() === username.toLowerCase()): the
\* elements are visited in order; reading x[key] of a null element throws, and
\* so does String on a value that cannot be converted.
FindByName(arr, key, username) ==
    LET Throws(i) == ~CanGet(arr[i]) \/ ~CanToString(Get(arr[i], key))
        Matches(i) == /\ ~Throws(i)
                      /\ ToLowerCase(ToStringChars(Get(arr[i], key)).value) = ToLowerCase(username)
        Stops(i) == Throws(i) \/ Matches(i)
    IN  IF \E i \in 1..Len(arr) : Stops(i)
        THEN LET i == CHOOSE k \in 1..Len(arr) : Stops(k) /\ \A j \in 1..(k - 1) : ~Stops(j)
             IN  IF Matches(i) THEN Return(arr[i]) ELSE Throw("TypeError")
        ELSE Return(Undef)

\* What the try block of each platform's task gives on the settled fetchJSON:
\* Return(profile) when it returns one, Return(Undef) when it falls through,
\* Throw when it throws (which the catch swallows).
\* Mutant of tryGitHub: the found profile links to the login of the payload
\* instead of the queried username.
tryGitHubLoginUrl(username, url, r) ==
    IF r.status # "fulfilled" THEN Throw("Error")
    ELSE IF Truthy(r.value) /\ Truthy(Get(r.value, "login"))
         THEN Return(Profile(GitHub, TRUE,
                             profileUrl(GitHub, Get(r.value, "login").v).value, r.value))
         ELSE Return(Undef)

tryGitHub(username, url, r) ==
    IF r.status # "fulfilled" THEN Throw("Error")
    ELSE IF Truthy(r.value) /\ Truthy(Get(r.value, "login"))
         THEN Return(Profile(GitHub, TRUE, url, r.value))
         ELSE Return(Undef)

tryGitLab(username, url, r) ==
    IF r.status # "fulfilled" THEN Throw("Error")
    ELSE LET u == IF r.value.t = "arr" THEN FindByName(r.value.v, "username", username)
                  ELSE Return(Null)
         IN  IF ~u.ok THEN u
             ELSE IF Truthy(u.value) THEN Return(Profile(GitLab, TRUE, url, u.value))
             ELSE Return(Undef)

tryReddit(username, url, r) ==
    IF r.status # "fulfilled" THEN Throw("Error")
    ELSE IF /\ Truthy(r.value)
            /\ Truthy(Get(r.value, "data"))
            /\ Truthy(Get(Get(r.value, "data"), "name"))
         THEN Return(Profile(Reddit, TRUE, url, Get(r.value, "data")))
         ELSE Return(Undef)

tryStackOverflow(username, url, r) ==
    IF r.status # "fulfilled" THEN Throw("Error")
    ELSE IF ~CanGet(r.value) THEN Throw("TypeError")
    ELSE LET items == Get(r.value, "items")
             exists == items.t = "arr" /\ Len(items.v) > 0
             exact == IF exists THEN FindByName(items.v, "display_name", username)
                      ELSE Return(Null)
         IN  IF ~exact.ok THEN exact
             ELSE Return(Profile(StackOverflow, Truthy(exact.value) \/ exists, url, r.value))

tryPlatform(platform, username, url, r) ==
    CASE platform = GitHub -> tryGitHub(username, url, r)
      [] platform = GitLab -> tryGitLab(username, url, r)
      [] platform = Reddit -> tryReddit(username, url, r)
      [] platform = StackOverflow -> tryStackOverflow(username, url, r)

\* The task of a platform cannot issue its request: encodeURIComponent throws
\* while the request URL is built, inside the try.
RequestUrlThrows(username) == ~encodeURIComponent(username).ok

\* How the task of a platform settles, given its settled fetchJSON (not read when
\* the request was never issued): with the profile of the try block, or with the
\* not-found profile after it; it rejects when building that profile's URL
\* throws.
platformTask(platform, username, r) ==
    LET url == profileUrl(platform, username)
        tried == IF RequestUrlThrows(username) THEN Throw("URIError")
                 ELSE tryPlatform(platform, username, IF url.ok THEN url.value ELSE <<>>, r)
    IN  IF tried.ok /\ tried.value # Undef THEN Fulfilled(tried.value)
        ELSE IF url.ok THEN Fulfilled(Profile(platform, FALSE, url.value, Undef))
        ELSE Rejected

\* Mutant of settledProfiles: the entries of rejected tasks are kept as null.
settledProfilesUnfiltered(settled) ==
    [i \in 1..Len(settled) |->
        IF settled[i].status = "fulfilled" THEN settled[i].value ELSE Null]

\* settled.map((s) => (s.status === 'fulfilled' ? s.value : null)).filter(Boolean)
settledProfiles(settled) ==
    LET mapped == [i \in 1..Len(settled) |->
                    IF settled[i].status = "fulfilled" THEN settled[i].value ELSE Null]
    IN  SelectSeq(mapped, LAMBDA x : x # Null)

------------------------------------------------------------------------------
\* Upstream answers of the four platforms

UsernameInputs == {<<"b", "o">>, <<"B", "o">>, <<"b", LoneSurrogate>>}

GitHubResponses ==
    FailedResponses
    \cup {Json(Null),
          Json(Obj([login |-> Undef, message |-> Str(<<"N", "o", "t", " ", "F", "o", "u", "n", "d">>)])),
          Json(Obj([login |-> Str(<<>>), message |-> Undef])),
          Json(Obj([login |-> Str(<<"b", "o">>), message |-> Undef]))}

GitLabUser(name) == Obj([username |-> Str(name)])

GitLabResponses ==
    FailedResponses
    \cup {Json(Null),
          Json(Obj([message |-> Str(<<"4", "0", "3">>)])),
          Json(Arr(<<>>)),
          Json(Arr(<<GitLabUser(<<"B", "O">>)>>)),
          Json(Arr(<<GitLabUser(<<"a", "l">>), GitLabUser(<<"b", "o">>)>>)),
          Json(Arr(<<Null, GitLabUser(<<"b", "o">>)>>))}

RedditResponses ==
    FailedResponses
    \cup {Json(Null),
          Json(Obj([data |-> Undef])),
          Json(Obj([data |-> Obj([name |-> Undef])])),
          Json(Obj([data |-> Obj([name |-> Str(<<"b", "o">>)])]))}

StackUser(name) == Obj([display_name |-> Str(name)])

StackOverflowResponses ==
    FailedResponses
    \cup {Json(Null),
          Json(Obj([items |-> Undef])),
          Json(Obj([items |-> Arr(<<>>)])),
          Json(Obj([items |-> Arr(<<StackUser(<<"b", "o", "b">>)>>)])),
          Json(Obj([items |-> Arr(<<StackUser(<<"b", "o", "b">>), StackUser(<<"B", "O">>)>>)])),
          Json(Obj([items |-> Arr(<<Null>>)]))}

UsernameUpstreams ==
    {[s \in Sources |->
        CASE s = GitHub -> gh
          [] s = GitLab -> gl
          [] s = Reddit -> rd
          [] s = StackOverflow -> so
          [] OTHER -> TransportFailure] :
        gh \in GitHubResponses, gl \in GitLabResponses,
        rd \in RedditResponses, so \in StackOverflowResponses}

\* lookupUsername(username) up to its await: the four tasks are started.  A task
\* whose request URL cannot be built settles at once without a request.
InvokeUsername(username) ==
    /\ CanInvoke
    /\ call' = [kind |-> "username", input |-> username, pc |-> "pending", out |-> Undef]
    /\ task' = [s \in Sources |->
                    IF s \notin UsernameSources THEN NotStarted
                    ELSE IF RequestUrlThrows(username)
                         THEN platformTask(s, username, Rejected)
                         ELSE Pending]
    /\ issued' = [s \in Sources |->
                    IF s \in UsernameSources /\ ~RequestUrlThrows(username) THEN 1 ELSE 0]

\* lookupUsername(username) is invoked on its own, outside the search form.
CallLookupUsername(username) ==
    /\ InvokeUsername(username)
    /\ UNCHANGED <<upstream, arrival, prev, peer, ui>>

\* The upstream answers the request of one platform: its task settles.
SettlePlatform(s) ==
    /\ call.kind = "username"
    /\ task[s].status = "pending"
    /\ task' = [task EXCEPT ![s] = platformTask(s, call.input, fetchJSON(upstream[s]))]
    /\ issued' = requestsAfter(s, fetchJSON(upstream[s]))
    /\ UNCHANGED <<upstream, call, arrival, prev, peer, ui>>

\* const settled = await Promise.allSettled(tasks): in the order of the array.
UsernameSettledResults == [i \in 1..4 |-> task[Platforms[i]]]

\* lookupUsername resumes once the four tasks have settled.
ReturnLookupUsername ==
    /\ call.kind = "username"
    /\ call.pc = "pending"
    /\ \A s \in UsernameSources : Settled(task[s])
    /\ Complete(Return(Arr(settledProfiles(UsernameSettledResults))))
    /\ UNCHANGED <<upstream, task, arrival, issued, prev, peer, ui>>

InitUsername == upstream \in UsernameUpstreams /\ InitCall

NextUsername ==
    \/ \E u \in UsernameInputs : CallLookupUsername(u)
    \/ \E s \in UsernameSources : SettlePlatform(s)
    \/ ReturnLookupUsername
    \/ NextSearch

SpecUsername == InitUsername /\ [][NextUsername]_vars

\* Claims about lookupUsername (checked under SpecUsername)

UsernameDone == call.kind = "username" /\ call.pc \in {"returned", "rejected"}

\* The number of the first i platforms whose task fulfilled.
FulfilledUpTo(i) == Cardinality({j \in 1..i : task[Platforms[j]].status = "fulfilled"})

\* C3: lookupUsername never rejects; when some of its tasks raise and the others
\* resolve, it returns exactly the profiles of the tasks that resolved, in the
\* order GitHub, GitLab, Reddit, StackOverflow.
C3_OnlyResolvedProfiles ==
    UsernameDone =>
        /\ call.pc = "returned"
        /\ Len(call.out.v) = FulfilledUpTo(4)
        /\ \A i \in 1..4 :
            task[Platforms[i]].status = "fulfilled" =>
                /\ call.out.v[FulfilledUpTo(i)] = task[Platforms[i]].value
                /\ call.out.v[FulfilledUpTo(i)].platform = Platforms[i]

\* One task rejected, the three others resolved, and three profiles were
\* returned.
C3_Witness ==
    /\ UsernameDone
    /\ call.pc = "returned"
    /\ Cardinality({s \in UsernameSources : task[s].status = "rejected"}) = 1
    /\ Len(call.out.v) = 3
    /\ call.out.v[1].platform = GitHub
    /\ call.out.v[3].platform = Reddit

------------------------------------------------------------------------------
\* The join of the three aggregators (lookupIP, lookupDomain, lookupUsername)

CallDone == call.pc \in {"returned", "rejected"}

\* No task of the invocation is pending.
AllTasksSettled == \A s \in CallSources : task[s].status # "pending"

\* The scheduling of the event loop: a settled join resumes its caller.
FairSpecIP == SpecIP /\ WF_vars(ReturnLookupIP)
FairSpecDomain == SpecDomain /\ WF_vars(ReturnLookupDomain)
FairSpecUsername == SpecUsername /\ WF_vars(ReturnLookupUsername)

\* The part of C10 about the moment of completion: an aggregator completes (by
\* returning or by rejecting) only once every one of its tasks has settled, and
\* is pending as long as one of them is.
JoinWaitsForAll ==
    (call.kind \in {"ip", "domain", "username"} /\ CallDone) => AllTasksSettled

\* No step takes a task back: a pending or settled task of the invocation stays
\* as it is, or a pending one settles, until the caller moves on.
TasksNeverCancelled ==
    [][call'.pc # "idle" =>
        \A s \in CallSources :
            /\ Settled(task[s]) => task'[s] = task[s]
            /\ task[s].status = "pending" => task'[s].status # "none"]_vars

\* Once every task has settled, the invocation completes.
SettledLeadsToDone ==
    (call.pc = "pending" /\ AllTasksSettled) ~> CallDone

\* C10: each of lookupIP, lookupDomain and lookupUsername completes only after
\* every one of its requests has settled, the failure of a request neither
\* completes the call early nor cancels a sibling, and once every request has
\* settled the call returns.
C10_SettleAllThenReturns ==
    call.kind \in {"ip", "domain", "username"} =>
        /\ CallDone => AllTasksSettled
        /\ (call.pc # "idle" /\ ~AllTasksSettled) => call.pc = "pending"
        /\ (CallDone /\ RequestsIssued /\ AllTasksSettled) => call.pc = "returned"

------------------------------------------------------------------------------
\* The four lookups together, on a few upstream conditions

EveryRequestFails == [s \in Sources |-> TransportFailure]

EveryRequestAnswers ==
    [s \in Sources |->
        CASE s = IpApi -> Json(Obj(IpApiFull))
          [] s = IpWho -> Json(Obj(IpWhoFull))
          [] s = Rdap -> Json(Obj([handle |-> Str(<<"A", ".", "I", "O">>)]))
          [] s \in DohTypes -> DohJson(Arr(<<Answer(GoodData[s])>>))
          [] s = GitHub -> Json(Obj([login |-> Str(<<"b", "o">>), message |-> Undef]))
          [] s = GitLab -> Json(Arr(<<GitLabUser(<<"b", "o">>)>>))
          [] s = Reddit -> Json(Obj([data |-> Obj([name |-> Str(<<"b", "o">>)])]))
          [] s = StackOverflow -> Json(Obj([items |-> Arr(<<StackUser(<<"B", "O">>)>>)]))]

\* Every request failing, every request answered, and one request failing (by
\* status) among answered ones.
LookupUpstreams ==
    {EveryRequestFails, EveryRequestAnswers}
    \cup {[EveryRequestAnswers EXCEPT ![s] = HttpFailure] : s \in Sources}

LookupEmails ==
    {<<"a", "@", "B">>, <<"a", "@", "B", "@", "a">>, <<"a">>, <<"a", "@", " ">>,
     <<"a", "@", LoneSurrogate>>}

InitLookups == upstream \in LookupUpstreams /\ InitCall

NextLookups ==
    \/ \E ip \in IPInputs : CallLookupIP(ip)
    \/ \E s \in IPSources : SettleIP(s)
    \/ ReturnLookupIP
    \/ \E d \in DomainInputs : CallLookupDomain(d)
    \/ \E t \in DohTypes : SettleDoh(t)
    \/ SettleRdap
    \/ ReturnLookupDomain
    \/ \E e \in LookupEmails : CallLookupEmail(e)
    \/ ReturnLookupEmail
    \/ \E u \in UsernameInputs : CallLookupUsername(u)
    \/ \E s \in UsernameSources : SettlePlatform(s)
    \/ ReturnLookupUsername
    \/ NextSearch

SpecLookups == InitLookups /\ [][NextLookups]_vars

\* The invocation in progress got past its validation (only lookupEmail has one).
PassedValidation == call.kind = "email" => Truthy(emailDomain(call.input))

\* C11: every invocation (that passes validation) has issued exactly one request
\* to each of its sources, 2 for lookupIP, 7 for lookupDomain and lookupEmail, 4
\* for lookupUsername, and none to any other source, at every moment from the
\* call on: no source is skipped and no request is sent again.
C11_ExactlyOneRequestPerSource ==
    (call.pc # "idle" /\ PassedValidation) =>
        \A s \in Sources : issued[s] = IF s \in CallSources THEN 1 ELSE 0

------------------------------------------------------------------------------
\* Two invocations in flight at once

\* The parameters and locals of the invocation whose code is running: every
\* lookup keeps its promises and its accumulator in variables of its own call.
locals == [call |-> call, task |-> task, arrival |-> arrival, issued |-> issued]

\* Mutant of ownTasks: the promises are kept in one place for all invocations.
ownTasksShared(parked) == task

\* The promises an invocation finds when its code runs again: its own (they are
\* local constants of the call, never module-level state).
ownTasks(parked) == parked.task

\* The event loop turns to the other invocation: a callback runs to completion,
\* and the next one may belong to either of the two.
Switch ==
    /\ peer' = locals
    /\ call' = peer.call
    /\ task' = ownTasks(peer)
    /\ arrival' = peer.arrival
    /\ issued' = peer.issued
    /\ UNCHANGED <<upstream, prev, ui>>

ConcurrentIPs == {<<"1", ".", "1", ".", "1", ".", "1">>, <<"1", LoneSurrogate>>}
ConcurrentDomains == {<<"a", ".", "i", "o">>}
ConcurrentUsernames == {<<"b", "o">>, <<"B", "o">>}

ConcurrentUpstreams ==
    {EveryRequestFails, EveryRequestAnswers,
     [EveryRequestAnswers EXCEPT ![IpApi] = Json(Null)],
     [EveryRequestAnswers EXCEPT ![StackOverflow] = HttpFailure]}

InitConcurrent == upstream \in ConcurrentUpstreams /\ InitCall

\* Each of the two invocations is one lookup; their steps interleave freely.
NextConcurrent ==
    \/ \E ip \in ConcurrentIPs : CallLookupIP(ip)
    \/ \E s \in IPSources : SettleIP(s)
    \/ ReturnLookupIP
    \/ \E d \in ConcurrentDomains : CallLookupDomain(d)
    \/ \E t \in DohTypes : SettleDoh(t)
    \/ SettleRdap
    \/ ReturnLookupDomain
    \/ \E u \in ConcurrentUsernames : CallLookupUsername(u)
    \/ \E s \in UsernameSources : SettlePlatform(s)
    \/ ReturnLookupUsername
    \/ Switch

SpecConcurrent == InitConcurrent /\ [][NextConcurrent]_vars

\* What a lookup of the given kind completes with when it runs alone on the
\* upstream answers: computed from the answers, with no other invocation.
AloneOutcome(kind, input) ==
    CASE kind = "ip" ->
            IF encodeURIComponent(input).ok
            THEN lookupIPBody(fetchJSON(upstream[IpApi]), fetchJSON(upstream[IpWho]))
            ELSE encodeURIComponent(input)
      [] kind = "domain" ->
            IF encodeURIComponent(input).ok
            THEN lookupDomainBody(input,
                    [s \in DomainSources |->
                        IF s = Rdap THEN rdapLookup(upstream[s]) ELSE dohResolve(upstream[s])])
            ELSE encodeURIComponent(input)
      [] kind = "username" ->
            Return(Arr(settledProfiles(
                [i \in 1..4 |->
                    platformTask(Platforms[i], input, fetchJSON(upstream[Platforms[i]]))])))

\* The completed invocation c completed as it would have alone.
AsAlone(c) ==
    c.pc \in {"returned", "rejected"} =>
        /\ c.pc = (IF AloneOutcome(c.kind, c.input).ok THEN "returned" ELSE "rejected")
        /\ c.out = AloneOutcome(c.kind, c.input).value

\* C12: of two lookups in flight at once, of the same kind or not, under every
\* interleaving of their requests and responses, each completes with exactly
\* what it would complete with alone on the same upstream answers.
C12_ConcurrentAsAlone == AsAlone(call) /\ AsAlone(peer.call)

\* Two lookupUsername calls for different usernames were in flight together and
\* both returned, each with the profile URLs of its own username.
C12_Witness ==
    /\ call.kind = "username" /\ call.pc = "returned" /\ call.input = <<"B", "o">>
    /\ peer.call.kind = "username" /\ peer.call.pc = "returned"
    /\ peer.call.input = <<"b", "o">>
    /\ upstream = EveryRequestAnswers
    /\ call.out # peer.call.out
    /\ call.out.v[1].url = <<"h", "t", "t", "p", "s", ":", "/", "/", "g", "i", "t", "h", "u", "b", ".", "c", "o", "m", "/", "B", "o">>

------------------------------------------------------------------------------
\* Risk Scorer

Low == Str(<<"l", "o", "w">>)
Medium == Str(<<"m", "e", "d", "i", "u", "m">>)
High == Str(<<"h", "i", "g", "h">>)
RiskLevels == {Low, Medium, High}

cloudVendors ==
    <<<<"a", "m", "a", "z", "o", "n">>,
     <<"a", "w", "s">>,
     <<"g", "o", "o", "g", "l", "e">>,
     <<"m", "i", "c", "r", "o", "s", "o", "f", "t">>,
     <<"a", "z", "u", "r", "e">>,
     <<"d", "i", "g", "i", "t", "a", "l", "o", "c", "e", "a", "n">>,
     <<"l", "i", "n", "o", "d", "e">>,
     <<"o", "v", "h">>,
     <<"h", "e", "t", "z", "n", "e", "r">>,
     <<"c", "o", "n", "t", "a", "b", "o">>,
     <<"v", "u", "l", "t", "r">>>>

\* x.toLowerCase(): a value that is not a string has no such method.
toLowerCase(x) ==
    IF x.t = "str" THEN Return(ToLowerCase(x.v)) ELSE Throw("TypeError")

\* Mutant of looksCloud: the vendor names are looked for in the texts as given.
looksCloudCaseSensitive(asn, org) ==
    \E i \in 1..Len(cloudVendors) :
        Includes(asn, cloudVendors[i]) \/ Includes(org, cloudVendors[i])

\* cloudVendors.some((v) => asnText.includes(v) || orgText.includes(v)), on the
\* texts before they are lower-cased.
looksCloud(asn, org) ==
    \E i \in 1..Len(cloudVendors) :
        \/ Includes(ToLowerCase(asn), cloudVendors[i])
        \/ Includes(ToLowerCase(org), cloudVendors[i])

\* scoreIPRisk(ip)
scoreIPRisk(ip) ==
    LET asn == Or(ip.asn, Str(<<>>))
        org == Or(Or(ip.org, ip.isp), Str(<<>>))
    IN  IF ~toLowerCase(asn).ok THEN toLowerCase(asn)
        ELSE IF ~toLowerCase(org).ok THEN toLowerCase(org)
        ELSE IF looksCloud(asn.v, org.v) THEN Return(Medium)
        ELSE Return(Low)

\* The values a text field of a scored IPRecord takes: absent, empty, texts
\* naming a vendor in some letter case or none, one that names a vendor but for
\* a dotted capital I, and a number.
ScoreTexts ==
    {Undef, Str(<<>>), Str(<<"A", "m", "a", "z", "o", "n", ".", "c", "o", "m", ",", " ", "I", "n", "c", ".">>), Str(<<"O", "r", "a", "n", "g", "e">>), Str(<<"A", "S", "1", "6", "2", "7", "6", " ", "O", "V", "H", " ", "S", "A", "S">>),
     Str(<<"M", "I", "C", "R", "O", "S", "O", "F", "T">>),
     Str(<<"L", "\\u0130", "N", "O", "D", "E">>), Num(15169)}

\* The IPRecords scored: every combination of asn, org and isp, and the record
\* lookupIP returns when ip-api.com gives a number as its as field.
ScoredIPs ==
    {[EmptyIPLookup EXCEPT !.asn = a, !.org = o, !.isp = i] :
        a \in ScoreTexts, o \in ScoreTexts, i \in ScoreTexts}
    \cup {lookupIPBody(Fulfilled(Obj([IpApiFull EXCEPT !["as"] = Num(16276)])),
                       Rejected).value}

\* scoreIPRisk(ip) is called and completes.
CallScoreIPRisk(ip) ==
    /\ CanInvoke
    /\ call' = [kind |-> "scoreIPRisk", input |-> ip,
                pc |-> IF scoreIPRisk(ip).ok THEN "returned" ELSE "rejected",
                out |-> scoreIPRisk(ip).value]
    /\ UNCHANGED <<upstream, task, arrival, issued, prev, peer, ui>>

\* x?.length: undefined for null and undefined, and otherwise the property
\* read: the length of an array or of a string, the own length of an object,
\* undefined for a value that has none.
OptLength(x) == OptGet(x, "length")

\* The decimal digits of 2^-1075 from its first significant digit on (the value
\* is this times 10^-324): half of the smallest number above zero.  A decimal
\* text of that value or less is read as 0.
HalfMinValueDigits ==
    <<
      "2", "4", "7", "0", "3", "2", "8", "2", "2", "9", "2", "0", "6", "2", "3", "2",
      "7", "2", "0", "8", "8", "2", "8", "4", "3", "9", "6", "4", "3", "4", "1", "1",
      "0", "6", "8", "6", "1", "8", "2", "5", "2", "9", "9", "0", "1", "3", "0", "7",
      "1", "6", "2", "3", "8", "2", "2", "1", "2", "7", "9", "2", "8", "4", "1", "2",
      "5", "0", "3", "3", "7", "7", "5", "3", "6", "3", "5", "1", "0", "4", "3", "7",
      "5", "9", "3", "2", "6", "4", "9", "9", "1", "8", "1", "8", "0", "8", "1", "7",
      "9", "9", "6", "1", "8", "9", "8", "9", "8", "2", "8", "2", "3", "4", "7", "7",
      "2", "2", "8", "5", "8", "8", "6", "5", "4", "6", "3", "3", "2", "8", "3", "5",
      "5", "1", "7", "7", "9", "6", "9", "8", "9", "8", "1", "9", "9", "3", "8", "7",
      "3", "9", "8", "0", "0", "5", "3", "9", "0", "9", "3", "9", "0", "6", "3", "1",
      "5", "0", "3", "5", "6", "5", "9", "5", "1", "5", "5", "7", "0", "2", "2", "6",
      "3", "9", "2", "2", "9", "0", "8", "5", "8", "3", "9", "2", "4", "4", "9", "1",
      "0", "5", "1", "8", "4", "4", "3", "5", "9", "3", "1", "8", "0", "2", "8", "4",
      "9", "9", "3", "6", "5", "3", "6", "1", "5", "2", "5", "0", "0", "3", "1", "9",
      "3", "7", "0", "4", "5", "7", "6", "7", "8", "2", "4", "9", "2", "1", "9", "3",
      "6", "5", "6", "2", "3", "6", "6", "9", "8", "6", "3", "6", "5", "8", "4", "8",
      "0", "7", "5", "7", "0", "0", "1", "5", "8", "5", "7", "6", "9", "2", "6", "9",
      "9", "0", "3", "7", "0", "6", "3", "1", "1", "9", "2", "8", "2", "7", "9", "5",
      "5", "8", "5", "5", "1", "3", "3", "2", "9", "2", "7", "8", "3", "4", "3", "3",
      "8", "4", "0", "9", "3", "5", "1", "9", "7", "8", "0", "1", "5", "5", "3", "1",
      "2", "4", "6", "5", "9", "7", "2", "6", "3", "5", "7", "9", "5", "7", "4", "6",
      "2", "2", "7", "6", "6", "4", "6", "5", "2", "7", "2", "8", "2", "7", "2", "2",
      "0", "0", "5", "6", "3", "7", "4", "0", "0", "6", "4", "8", "5", "4", "9", "9",
      "9", "7", "7", "0", "9", "6", "5", "9", "9", "4", "7", "0", "4", "5", "4", "0",
      "2", "0", "8", "2", "8", "1", "6", "6", "2", "2", "6", "2", "3", "7", "8", "5",
      "7", "3", "9", "3", "4", "5", "0", "7", "3", "6", "3", "3", "9", "0", "0", "7",
      "9", "6", "7", "7", "6", "1", "9", "3", "0", "5", "7", "7", "5", "0", "6", "7",
      "4", "0", "1", "7", "6", "3", "2", "4", "6", "7", "3", "6", "0", "0", "9", "6",
      "8", "9", "5", "1", "3", "4", "0", "5", "3", "5", "5", "3", "7", "4", "5", "8",
      "5", "1", "6", "6", "6", "1", "1", "3", "4", "2", "2", "3", "7", "6", "6", "6",
      "7", "8", "6", "0", "4", "1", "6", "2", "1", "5", "9", "6", "8", "0", "4", "6",
      "1", "9", "1", "4", "4", "6", "7", "2", "9", "1", "8", "4", "0", "3", "0", "0",
      "5", "3", "0", "0", "5", "7", "5", "3", "0", "8", "4", "9", "0", "4", "8", "7",
      "6", "5", "3", "9", "1", "7", "1", "1", "3", "8", "6", "5", "9", "1", "6", "4",
      "6", "2", "3", "9", "5", "2", "4", "9", "1", "2", "6", "2", "3", "6", "5", "3",
      "8", "8", "1", "8", "7", "9", "6", "3", "6", "2", "3", "9", "3", "7", "3", "2",
      "8", "0", "4", "2", "3", "8", "9", "1", "0", "1", "8", "6", "7", "2", "3", "4",
      "8", "4", "9", "7", "6", "6", "8", "2", "3", "5", "0", "8", "9", "8", "6", "3",
      "3", "8", "8", "5", "8", "7", "9", "2", "5", "6", "2", "8", "3", "0", "2", "7",
      "5", "5", "9", "9", "5", "6", "5", "7", "5", "2", "4", "4", "5", "5", "5", "0",
      "7", "2", "5", "5", "1", "8", "9", "3", "1", "3", "6", "9", "0", "8", "3", "6",
      "2", "5", "4", "7", "7", "9", "1", "8", "6", "9", "4", "8", "6", "6", "7", "9",
      "9", "4", "9", "6", "8", "3", "2", "4", "0", "4", "9", "7", "0", "5", "8", "2",
      "1", "0", "2", "8", "5", "1", "3", "1", "8", "5", "4", "5", "1", "3", "9", "6",
      "2", "1", "3", "8", "3", "7", "7", "2", "2", "8", "2", "6", "1", "4", "5", "4",
      "3", "7", "6", "9", "3", "4", "1", "2", "5", "3", "2", "0", "9", "8", "5", "9",
      "1", "3", "2", "7", "6", "6", "7", "2", "3", "6", "3", "2", "8", "1", "2", "5"
    >>

\* The digits a are more than the digits b, both read as the fraction 0.a, 0.b.
GreaterDigits(a, b) ==
    LET At(d, i) == IF i <= Len(d) THEN DigitValue(d[i]) ELSE 0
        Differ == {i \in 1..(Len(a) + Len(b)) : At(a, i) # At(b, i)}
    IN  \E i \in Differ : At(a, i) > At(b, i) /\ \A j \in Differ : i <= j

RECURSIVE IndexOfAny(_, _)
\* The index of the first character of s that is in Chars, or Len(s) + 1.
IndexOfAny(s, Chars) ==
    IF s = <<>> \/ Head(s) \in Chars THEN 1 ELSE 1 + IndexOfAny(Tail(s), Chars)

AllDigits(s) == \A i \in 1..Len(s) : IsDigit(s[i])

\* The digits sig, read as d.ddd, times 10 to the power lead plus the exponent
\* are more than 2^-1075, so that the number they round to is not 0.  The
\* exponent is given by its sign and its digits without leading zeros, however
\* many: it is compared, digit by digit, with the distance from lead to the
\* power -324 of 2^-1075, and at that power the digits decide.
ScaledIsPositive(sig, lead, expNeg, expSig) ==
    LET dist == IF expNeg THEN lead + 324 ELSE 0 - (lead + 324)
        digits == IF dist <= 0 THEN <<>> ELSE NatToChars(dist)
    IN  IF dist < 0 THEN ~expNeg
        ELSE IF expSig = digits THEN GreaterDigits(sig, HalfMinValueDigits)
        ELSE IF Len(expSig) = Len(digits) THEN GreaterDigits(expSig, digits) <=> ~expNeg
        ELSE Len(expSig) > Len(digits) <=> ~expNeg

\* The decimal literal of these digits, with int of them before the point, and
\* of this exponent, does not read as 0.
DigitsArePositive(digits, int, expNeg, expDigits) ==
    /\ \E i \in 1..Len(digits) : digits[i] # "0"
    /\ ScaledIsPositive(SubSeq(digits, LeadingCount(digits, {"0"}) + 1, Len(digits)),
                        int - (LeadingCount(digits, {"0"}) + 1), expNeg,
                        SubSeq(expDigits, LeadingCount(expDigits, {"0"}) + 1, Len(expDigits)))

\* The mantissa, with its point at index dot, and the exponent part are a
\* decimal literal that does not read as 0; hasExp: the literal has an e.
MantissaIsPositive(mant, dot, expo, hasExp) ==
    /\ AllDigits(SubSeq(mant, 1, dot - 1))
    /\ AllDigits(SubSeq(mant, dot + 1, Len(mant)))
    /\ Len(mant) > (IF dot <= Len(mant) THEN 1 ELSE 0)
    /\ hasExp => /\ expo \notin {<<>>, <<"+">>, <<"-">>}
                 /\ AllDigits(IF Head(expo) \in {"+", "-"} THEN Tail(expo) ELSE expo)
    /\ DigitsArePositive(SubSeq(mant, 1, dot - 1) \o SubSeq(mant, dot + 1, Len(mant)),
                         dot - 1, expo # <<>> /\ Head(expo) = "-",
                         IF expo # <<>> /\ Head(expo) \in {"+", "-"} THEN Tail(expo) ELSE expo)

\* The literal without its sign is Infinity or a decimal literal above 0; at is
\* the index of its e.
UnsignedIsPositive(body, at) ==
    \/ body = <<"I", "n", "f", "i", "n", "i", "t", "y">>
    \/ MantissaIsPositive(SubSeq(body, 1, at - 1),
                          IndexOfAny(SubSeq(body, 1, at - 1), {"."}),
                          SubSeq(body, at + 1, Len(body)), at <= Len(body))

\* The trimmed text t is a numeric literal above 0: 0x, 0o or 0b and digits of
\* that base not all 0, or a literal with no minus sign that is Infinity or a
\* decimal that does not read as 0.
LiteralIsPositive(t) ==
    IF Len(t) >= 2 /\ t[1] = "0" /\ t[2] \in {"x", "X", "o", "O", "b", "B"}
    THEN /\ Len(t) >= 3
         /\ \A i \in 3..Len(t) :
               HexValue(t[i]) < (CASE t[2] \in {"x", "X"} -> 16 [] t[2] \in {"o", "O"} -> 8
                                   [] OTHER -> 2)
         /\ \E i \in 3..Len(t) : t[i] # "0"
    ELSE IF t = <<>> \/ Head(t) = "-" THEN FALSE
    ELSE IF Head(t) = "+" THEN UnsignedIsPositive(Tail(t), IndexOfAny(Tail(t), {"e", "E"}))
    ELSE UnsignedIsPositive(t, IndexOfAny(t, {"e", "E"}))

\* The number a text converts to (StringToNumber) is more than 0.  A text that
\* is no numeric literal converts to NaN, and the empty text to 0.
StringIsPositive(text) == LiteralIsPositive(Trim(text))

\* x > 0: x is converted to a primitive and then to a number, NaN comparing
\* false; the conversion of an object that cannot be converted throws.
GreaterThanZero(x) ==
    CASE x.t = "num" -> Return(x.v > 0)
      [] x.t = "bool" -> Return(x.v)
      [] x.t \in {"null", "undef"} -> Return(FALSE)
      [] x.t = "str" -> Return(StringIsPositive(x.v))
      [] OTHER -> IF CanToString(x) THEN Return(StringIsPositive(ToText(x)))
                  ELSE Throw("TypeError")

\* Mutant of scoreDomainRisk: mx and dmarc are looked at before a.
scoreDomainRiskMailFirst(dom) ==
    LET hasMX == GreaterThanZero(Or(OptLength(dom.mx), Num(0)))
        hasDMARC == Truthy(dom.dmarc)
    IN  IF ~hasMX.ok THEN hasMX
        ELSE IF ~hasMX.value \/ ~hasDMARC THEN Return(Medium)
        ELSE IF ~Truthy(OptLength(dom.a)) THEN Return(High)
        ELSE Return(Low)

\* scoreDomainRisk(dom)
scoreDomainRisk(dom) ==
    LET hasMX == GreaterThanZero(Or(OptLength(dom.mx), Num(0)))
        hasDMARC == Truthy(dom.dmarc)
    IN  IF ~Truthy(OptLength(dom.a)) THEN Return(High)
        ELSE IF ~hasMX.ok THEN hasMX
        ELSE IF ~hasMX.value \/ ~hasDMARC THEN Return(Medium)
        ELSE Return(Low)

\* Mutant of scoreEmailRisk: a missing SPF record lowers the score as well.
scoreEmailRiskWithSpf(email) ==
    IF ~Truthy(email.hasMX) THEN Return(High)
    ELSE IF ~Truthy(email.hasDMARC) \/ ~Truthy(email.hasSPF) THEN Return(Medium)
    ELSE Return(Low)

\* scoreEmailRisk(email)
scoreEmailRisk(email) ==
    IF ~Truthy(email.hasMX) THEN Return(High)
    ELSE IF ~Truthy(email.hasDMARC) THEN Return(Medium)
    ELSE Return(Low)

\* The DomainRecord as the scorer reads it: its lists as arrays.
DomainValue(dom) == [a |-> Arr(dom.a), mx |-> Arr(dom.mx), dmarc |-> dom.dmarc]

\* The DomainRecords scored: a, mx and dmarc each absent, empty, present or
\* malformed, and the record lookupDomain returns when every request answers.
ScoredDomains ==
    {[a |-> a, mx |-> mx, dmarc |-> dm] :
        a \in {Undef, Null, Arr(<<>>), Arr(<<GoodData["A"]>>),
               Arr(<<GoodData["A"], OtherData["A"]>>), Num(4),
               Obj([length |-> Num(2)])},
        mx \in {Undef, Null, Arr(<<>>), Obj([length |-> Num(2)]),
                Obj([length |-> Str(<<" ", "1", "e", "1">>)]),
                Obj([length |-> Obj([toString |-> Num(1)])]), Arr(<<Obj([priority |-> Num(10), exchange |-> Str(<<"m", "x", ".", "a", ".", "i", "o">>)])>>)},
        dm \in {Undef, Null, Str(<<>>), Str(<<"v", "=", "D", "M", "A", "R", "C", "1", ";", " ", "p", "=", "r", "e", "j", "e", "c", "t">>)}}
    \cup {DomainValue(lookupDomainBody(<<"a", ".", "i", "o">>,
                [s \in DomainSources |->
                    IF s = Rdap THEN rdapLookup(EveryRequestAnswers[s])
                    ELSE dohResolve(EveryRequestAnswers[s])]).value)}

\* The EmailRecords scored: each of the three flags true, false or absent.
ScoredEmails ==
    {[hasMX |-> m, hasSPF |-> sp, hasDMARC |-> dm] :
        m \in {Bool(TRUE), Bool(FALSE), Undef},
        sp \in {Bool(TRUE), Bool(FALSE), Undef},
        dm \in {Bool(TRUE), Bool(FALSE), Undef}}

\* scoreDomainRisk(dom) is called and completes.
CallScoreDomainRisk(dom) ==
    /\ CanInvoke
    /\ call' = [kind |-> "scoreDomainRisk", input |-> dom,
                pc |-> IF scoreDomainRisk(dom).ok THEN "returned" ELSE "rejected",
                out |-> scoreDomainRisk(dom).value]
    /\ UNCHANGED <<upstream, task, arrival, issued, prev, peer, ui>>

\* scoreEmailRisk(email) is called and completes.
CallScoreEmailRisk(email) ==
    /\ CanInvoke
    /\ call' = [kind |-> "scoreEmailRisk", input |-> email,
                pc |-> IF scoreEmailRisk(email).ok THEN "returned" ELSE "rejected",
                out |-> scoreEmailRisk(email).value]
    /\ UNCHANGED <<upstream, task, arrival, issued, prev, peer, ui>>

InitScore == upstream = EveryRequestFails /\ InitCall

NextScore ==
    \/ \E ip \in ScoredIPs : CallScoreIPRisk(ip)
    \/ \E dom \in ScoredDomains : CallScoreDomainRisk(dom)
    \/ \E email \in ScoredEmails : CallScoreEmailRisk(email)
    \/ NextSearch

SpecScore == InitScore /\ [][NextScore]_vars

\* Claims about the scorers (checked under SpecScore)

\* The value is a text, or absent (missing or empty).
TextOrAbsent(x) == x.t = "str" \/ x = Undef

\* The text x names one of the cloud vendors, in any letter case.
NamesVendor(x) ==
    /\ x.t = "str"
    /\ \E i \in 1..Len(cloudVendors) : Includes(ToLowerCase(x.v), cloudVendors[i])

\* C13: for an IPRecord whose asn, org and isp are texts or absent, scoreIPRisk
\* returns 'medium' exactly when the asn text, or the org text (the isp text when
\* org is empty or absent), lower-cased, contains a vendor name, and 'low'
\* otherwise; it never returns 'high'.
C13_IPRiskVendorMatch ==
    (/\ call.kind = "scoreIPRisk"
     /\ \A f \in {"asn", "org", "isp"} : TextOrAbsent(call.input[f])) =>
        /\ call.pc = "returned"
        /\ call.out =
             IF \/ NamesVendor(call.input.asn)
                \/ NamesVendor(IF NonEmptyText(call.input.org)
                               THEN call.input.org ELSE call.input.isp)
             THEN Medium ELSE Low

\* The record whose only text is the org 'Amazon.com, Inc.' was scored medium.
C13_Witness ==
    /\ call.kind = "scoreIPRisk"
    /\ call.input.org = Str(<<"A", "m", "a", "z", "o", "n", ".", "c", "o", "m", ",", " ", "I", "n", "c", ".">>)
    /\ call.input.asn = Undef
    /\ call.input.isp = Undef
    /\ call.out = Medium

\* The list is missing or has no entry.
EmptyOrAbsent(x) == x \in {Undef, Null} \/ (x.t = "arr" /\ x.v = <<>>)

\* The DomainRecord is well-formed: a and mx are lists or missing, dmarc is a
\* non-empty text or missing.
WellFormedDomain(dom) ==
    /\ \A f \in {"a", "mx"} : dom[f].t = "arr" \/ dom[f] \in {Undef, Null}
    /\ NonEmptyText(dom.dmarc) \/ dom.dmarc \in {Undef, Null}

\* C14: scoreDomainRisk returns 'high' when a is empty or absent, whatever mx and
\* dmarc are; otherwise 'medium' when mx is empty or absent or dmarc is absent;
\* otherwise 'low'.
C14_DomainRiskRule ==
    (call.kind = "scoreDomainRisk" /\ WellFormedDomain(call.input)) =>
        /\ call.pc = "returned"
        /\ call.out =
             IF EmptyOrAbsent(call.input.a) THEN High
             ELSE IF EmptyOrAbsent(call.input.mx) \/ call.input.dmarc \in {Undef, Null}
                  THEN Medium
             ELSE Low

\* A record with an empty a, and with an empty mx and no dmarc as well, was
\* scored high.
C14_Witness ==
    /\ call.kind = "scoreDomainRisk"
    /\ call.input.a = Arr(<<>>)
    /\ call.input.mx = Arr(<<>>)
    /\ call.input.dmarc = Null
    /\ call.out = High

\* C15: scoreEmailRisk returns 'high' when hasMX is false, otherwise 'medium'
\* when hasDMARC is false, otherwise 'low', whatever hasSPF is.
C15_EmailRiskRule ==
    (/\ call.kind = "scoreEmailRisk"
     /\ call.input.hasMX.t = "bool"
     /\ call.input.hasDMARC.t = "bool") =>
        /\ call.pc = "returned"
        /\ call.out =
             IF ~call.input.hasMX.v THEN High
             ELSE IF ~call.input.hasDMARC.v THEN Medium
             ELSE Low

\* A record with MX and DMARC but no SPF was scored low.
C15_Witness ==
    /\ call.kind = "scoreEmailRisk"
    /\ call.input.hasMX = Bool(TRUE)
    /\ call.input.hasDMARC = Bool(TRUE)
    /\ call.input.hasSPF = Bool(FALSE)
    /\ call.out = Low

\* C16: the three scorers are total: whatever the record scored, fields absent
\* or malformed included, the scorer returns low, medium or high and never
\* raises.
C16_ScorersTotal ==
    call.kind \in {"scoreIPRisk", "scoreDomainRisk", "scoreEmailRisk"} =>
        (call.pc = "returned" /\ call.out \in RiskLevels)

------------------------------------------------------------------------------
\* Claims about the EmailRecord (checked under SpecEmail)

EmailReturned == call.kind = "email" /\ call.pc = "returned"

\* The whole text of the address after its first '@'.
AfterFirstAt(email) ==
    SubSeq(email, IndexFrom(email, "@", 1) + 1, Len(email))

\* C17: the domain of a returned EmailRecord is the whole text of the address
\* after its first '@', trimmed and lower-cased, also when the address has more
\* than one '@'.
C17_DomainAfterFirstAt ==
    EmailReturned => call.out.domain = ToLowerCase(Trim(AfterFirstAt(call.input)))

\* The DomainRecord the completed lookupEmail was given by lookupDomain.
EmailDomainRecord == lookupDomainResult(emailDomain(call.input).v).value

\* The value of the tag of a DMARC text whose name is p: the text after the
\* first 'p=' that begins a tag (at the start, or after ';' or whitespace), up
\* to the next ';' or whitespace; null when there is none.
PolicyTagValue(s) ==
    LET Stop == WhiteSpaceChars \cup {";"}
        Starts(i) == /\ i + 2 <= Len(s)
                     /\ s[i] \in {"p", "P"}
                     /\ s[i + 1] = "="
                     /\ s[i + 2] \notin Stop
                     /\ (i = 1 \/ s[i - 1] \in Stop)
        Value(i) == LET tail == SubSeq(s, i + 2, Len(s))
                    IN  SubSeq(tail, 1, LeadingCount(tail, {tail[j] : j \in 1..Len(tail)} \ Stop))
    IN  IF \E i \in 1..Len(s) : Starts(i)
        THEN Str(Value(CHOOSE k \in 1..Len(s) : Starts(k) /\ \A j \in 1..(k - 1) : ~Starts(j)))
        ELSE Null

\* C18: dmarcPolicy is the value of the p tag of the DMARC value, also when a
\* tag whose name ends in p (sp=) comes before it, and null when there is no
\* DMARC value or no p tag.
C18_PolicyIsPTag ==
    EmailReturned =>
        call.out.dmarcPolicy =
            IF EmailDomainRecord.dmarc = Null THEN Null
            ELSE PolicyTagValue(EmailDomainRecord.dmarc.v)

\* C19: the flags and samples of a returned EmailRecord are those of the
\* DomainRecord of the derived domain: hasMX iff its mx has an entry, hasSPF iff
\* its spf is true, hasDMARC iff its dmarc is present, and txtSamples its first 5
\* txt entries in order, all of them when there are fewer.
C19_EmailReducesDomain ==
    EmailReturned =>
        LET dom == EmailDomainRecord
            rec == call.out
        IN  /\ dom.domain = rec.domain
            /\ rec.hasMX = (dom.mx # <<>>)
            /\ rec.hasSPF = dom.spf
            /\ rec.hasDMARC = (dom.dmarc # Null)
            /\ Len(rec.txtSamples) = (IF Len(dom.txt) < 5 THEN Len(dom.txt) ELSE 5)
            /\ \A i \in 1..Len(rec.txtSamples) : rec.txtSamples[i] = dom.txt[i]

\* A domain with MX, DMARC and six TXT entries: the record has the first five.
C19_Witness ==
    /\ EmailReturned
    /\ Len(EmailDomainRecord.txt) = 6
    /\ Len(call.out.txtSamples) = 5
    /\ call.out.txtSamples[5] = <<"t", "5">>
    /\ call.out.hasMX
    /\ call.out.hasDMARC
    /\ ~call.out.hasSPF

------------------------------------------------------------------------------
\* Claims about the UsernameProfiles (checked under SpecUsername)

\* C20: no profile returned by lookupUsername has exists false together with a
\* data payload: data is present only when exists is true.
C20_DataOnlyWhenExists ==
    (UsernameDone /\ call.pc = "returned") =>
        \A i \in 1..Len(call.out.v) :
            ~call.out.v[i].exists => call.out.v[i].data = Undef

\* The responses a platform's endpoint is given in the model.
PlatformResponses(platform) ==
    CASE platform = GitHub -> GitHubResponses
      [] platform = GitLab -> GitLabResponses
      [] platform = Reddit -> RedditResponses
      [] platform = StackOverflow -> StackOverflowResponses

UsernameReturned == call.kind = "username" /\ call.pc = "returned"

\* C21: the url of a returned profile depends on the username alone: the task of
\* its platform, run on the same username with any other upstream outcome (found,
\* not found, request failed), gives a profile with the same url.
C21_UrlOfUsernameAlone ==
    UsernameReturned =>
        \A i \in 1..Len(call.out.v) :
            \A resp \in PlatformResponses(call.out.v[i].platform) :
                LET other == platformTask(call.out.v[i].platform, call.input, fetchJSON(resp))
                IN  other.status = "fulfilled" => other.value.url = call.out.v[i].url

\* 'Bo' was found on GitHub under the login 'bo', not found on GitLab, and the
\* Reddit request failed; the three profiles link to the queried name.
C21_Witness ==
    /\ UsernameReturned
    /\ call.input = <<"B", "o">>
    /\ Len(call.out.v) = 4
    /\ call.out.v[1].exists /\ call.out.v[1].data = Obj([login |-> Str(<<"b", "o">>), message |-> Undef])
    /\ call.out.v[1].url = <<"h", "t", "t", "p", "s", ":", "/", "/", "g", "i", "t", "h", "u", "b", ".", "c", "o", "m", "/", "B", "o">>
    /\ upstream[GitLab] = Json(Arr(<<>>)) /\ ~call.out.v[2].exists
    /\ upstream[Reddit] = TransportFailure /\ ~call.out.v[3].exists
    /\ call.out.v[3].url = <<"h", "t", "t", "p", "s", ":", "/", "/", "w", "w", "w", ".", "r", "e", "d", "d", "i", "t", ".", "c", "o", "m", "/", "u", "s", "e", "r", "/", "B", "o">>

------------------------------------------------------------------------------
\* The search form (RealSearchEngine): the query and the type are edited at any
\* time, and one search runs at a time, the submit button being disabled while
\* isLoading

MaxSearches == 2
HistorySize == 6

Toast(title, description, variant) ==
    [title |-> title, description |-> description, variant |-> variant]

\* The PhoneNumber objects of the phone grammar library, as far as handleSearch
\* reads them.
PhoneNumbers ==
    {[t |-> "PhoneNumber", formatted |-> Str(f), country |-> c, valid |-> v,
      possible |-> ps, type |-> ty] :
        f \in {<<"+", "1", "2">>}, c \in {Undef, Str(<<"U", "S">>)},
        v \in BOOLEAN, ps \in BOOLEAN, ty \in {Undef, Str(<<"M", "O", "B", "I", "L", "E">>)}}

\* parsePhoneNumberFromString(q) of libphonenumber-js: a PhoneNumber, or undefined
\* when the text cannot be parsed.  The grammar is the library's: a text without
\* a digit is never parsed, and any outcome is allowed for the others.
parsePhoneNumberFromString(q) ==
    IF \E i \in 1..Len(q) : IsDigit(q[i]) THEN PhoneNumbers \cup {Undef} ELSE {Undef}

\* Object.keys(ipData.sources || {}): the providers recorded, in insertion order.
ObjectKeys(sources) ==
    SelectSeq(<<IpApi, IpWho>>, LAMBDA n : \E e \in sources : e[1] = n)

\* The SearchResult built by a branch (its id is the clock's and is left out).
SearchResult(type, q, data, sources, riskLevel, confidence) ==
    [type |-> type, query |-> q, data |-> data, sources |-> sources,
     riskLevel |-> riskLevel, confidence |-> confidence]

\* The EmailRecord as its scorer reads it.
EmailValue(em) == [hasMX |-> Bool(em.hasMX), hasDMARC |-> Bool(em.hasDMARC)]

ipBranch(q, ipData) ==
    LET risk == scoreIPRisk(ipData)
    IN  IF risk.ok
        THEN Return(SearchResult("ip", q, ipData, ObjectKeys(ipData.sources), risk.value, 85))
        ELSE risk

domainBranch(q, dom) ==
    LET risk == scoreDomainRisk(DomainValue(dom))
    IN  IF risk.ok THEN Return(SearchResult("domain", q, dom, Undef, risk.value, 80))
        ELSE risk

emailBranch(q, em) ==
    LET risk == scoreEmailRisk(EmailValue(em))
    IN  IF risk.ok THEN Return(SearchResult("email", q, em, Undef, risk.value, 70))
        ELSE risk

usernameBranch(q, profiles) ==
    LET found == 20 * Cardinality({i \in 1..Len(profiles.v) : profiles.v[i].exists})
    IN  Return(SearchResult("username", q, [profiles |-> profiles], Undef, Undef,
                            IF found < 95 THEN found ELSE 95))

\* The phone branch: it throws when the library returns no PhoneNumber.
phoneBranch(q, phone) ==
    IF phone = Undef THEN Throw("Invalid phone number format")
    ELSE Return(SearchResult("phone", q,
                    [formatted |-> phone.formatted, country |-> phone.country,
                     valid |-> phone.valid, possible |-> phone.possible,
                     type |-> phone.type],
                    Undef, Undef, IF phone.valid THEN 80 ELSE 40))

\* What the try block gives once the awaited lookup has completed: its rejection
\* is thrown at the await.
lookupBranch(searchType, q) ==
    IF call.pc = "rejected" THEN [ok |-> FALSE, value |-> call.out]
    ELSE CASE searchType = "ip" -> ipBranch(q, call.out)
           [] searchType = "domain" -> domainBranch(q, call.out)
           [] searchType = "email" -> emailBranch(q, call.out)
           [] searchType = "username" -> usernameBranch(q, call.out)
           [] OTHER -> Throw("Unsupported search type")

\* [q, ...prev.filter((v) => v !== q)].slice(0, 6)
pushHistory(history, q) ==
    LET all == <<q>> \o SelectSeq(history, LAMBDA v : v # q)
    IN  SubSeq(all, 1, IF Len(all) < HistorySize THEN Len(all) ELSE HistorySize)

\* The end of handleSearch on the outcome of its try block: the result and the
\* 'Search Complete' toast, or the catch and its 'Search Failed' toast; finally
\* isLoading is cleared.
finishSearch(form, q, outcome) ==
    IF outcome.ok
    THEN [form EXCEPT !.results = <<outcome.value>>,
                      !.searchHistory = pushHistory(@, q),
                      !.toast = Toast("Search Complete", q, "default"),
                      !.isLoading = FALSE]
    ELSE [form EXCEPT !.toast = Toast("Search Failed", outcome.value.error, "destructive"),
                      !.isLoading = FALSE]

\* The five tabs.
SearchTypes == {"ip", "domain", "email", "username", "phone"}

\* The texts typed into the input: an address, a blank text, and one that no
\* URL can carry.  The first has no digit and the last has one.
SearchQueries == {<<"a", "@", "B">>, <<" ">>, <<"1", LoneSurrogate>>}

\* setSearchQuery(text): the input is edited, or a badge of the history is
\* clicked; neither is disabled while a search runs.
SetSearchQuery(text) ==
    /\ ui' = [ui EXCEPT !.searchQuery = text]
    /\ UNCHANGED <<upstream, call, task, arrival, issued, prev, peer>>

\* setSearchType(v): a tab is chosen.
SetSearchType(v) ==
    /\ ui' = [ui EXCEPT !.searchType = v]
    /\ UNCHANGED <<upstream, call, task, arrival, issued, prev, peer>>

\* The form is submitted, which its button allows when no search is running:
\* handleSearch captures the type and the trimmed query of the form and runs up
\* to its first await, which is the end for an empty query and for a phone
\* search.
HandleSearch ==
    LET searchType == ui.searchType
        q == Trim(ui.searchQuery)
        form == [ui EXCEPT !.submitted = [searchType |-> searchType, q |-> q],
                           !.phone = Undef, !.searches = @ + 1]
    IN  /\ ~ui.isLoading
        /\ CanInvoke
        /\ ui.searches < MaxSearches
        /\ CASE q = <<>> ->
                    /\ ui' = [form EXCEPT !.toast = Toast("Error", "Please enter a search query",
                                                          "destructive")]
                    /\ UNCHANGED <<call, task, issued>>
             [] q # <<>> /\ searchType = "phone" ->
                    /\ \E phone \in parsePhoneNumberFromString(q) :
                          ui' = finishSearch([form EXCEPT !.phone = phone], q,
                                             phoneBranch(q, phone))
                    /\ UNCHANGED <<call, task, issued>>
             [] q # <<>> /\ searchType = "ip" ->
                    InvokeIP(q) /\ ui' = [form EXCEPT !.isLoading = TRUE]
             [] q # <<>> /\ searchType = "domain" ->
                    InvokeDomain(q) /\ ui' = [form EXCEPT !.isLoading = TRUE]
             [] q # <<>> /\ searchType = "email" ->
                    InvokeEmail(q) /\ ui' = [form EXCEPT !.isLoading = TRUE]
             [] q # <<>> /\ searchType = "username" ->
                    InvokeUsername(q) /\ ui' = [form EXCEPT !.isLoading = TRUE]
        /\ UNCHANGED <<upstream, arrival, prev, peer>>

\* handleSearch resumes after its await, the lookup having completed, with the
\* type and the query it captured when the form was submitted.
ResumeHandleSearch ==
    /\ ui.isLoading
    /\ call.pc \in {"returned", "rejected"}
    /\ ui' = finishSearch(ui, ui.submitted.q, lookupBranch(ui.submitted.searchType, ui.submitted.q))
    /\ call' = Idle
    /\ task' = [s \in Sources |-> NotStarted]
    /\ issued' = [s \in Sources |-> 0]
    /\ arrival' = <<>>
    /\ UNCHANGED <<upstream, prev, peer>>

InitSearch == upstream \in {EveryRequestFails, EveryRequestAnswers} /\ InitCall

NextSearchForm ==
    \/ \E text \in SearchQueries : SetSearchQuery(text)
    \/ \E i \in 1..Len(ui.searchHistory) : SetSearchQuery(ui.searchHistory[i])
    \/ \E v \in SearchTypes : SetSearchType(v)
    \/ HandleSearch
    \/ \E s \in IPSources : SettleIP(s)
    \/ ReturnLookupIP
    \/ \E t \in DohTypes : SettleDoh(t)
    \/ SettleRdap
    \/ ReturnLookupDomain
    \/ ReturnLookupEmail
    \/ \E s \in UsernameSources : SettlePlatform(s)
    \/ ReturnLookupUsername
    \/ ResumeHandleSearch

SpecSearch == InitSearch /\ [][NextSearchForm]_vars

\* The last submission was a phone search whose query the library did not parse.
PhoneNotParsed ==
    /\ ui.searches > 0
    /\ ui.submitted.searchType = "phone"
    /\ ui.submitted.q # <<>>
    /\ ui.phone = Undef

\* C22: a phone search on a query that the library cannot parse does not end in
\* an exception or a failed search: it gives a phone result whose validity flag
\* reports it.
C22_UnparsablePhoneReported ==
    PhoneNotParsed =>
        /\ ui.toast.title # "Search Failed"
        /\ Len(ui.results) = 1
        /\ ui.results[1].type = "phone"
        /\ ui.results[1].query = ui.submitted.q
        /\ ~ui.results[1].data.valid

\* The request of the platform failed or its payload is malformed: the try block
\* of the platform's task throws into its catch (the request URL cannot be
\* built, the request fails by transport, status or a body that is not JSON,
\* or reading the payload throws), or the payload fails the shape test of the
\* task: data && data.login for GitHub, Array.isArray(arr) for GitLab,
\* data && data.data && data.data.name for Reddit, Array.isArray(data.items)
\* for StackOverflow.
FailedOrMalformed(platform) ==
    LET r == fetchJSON(upstream[platform])
        tried == IF RequestUrlThrows(call.input) THEN Throw("URIError")
                 ELSE tryPlatform(platform, call.input, <<>>, r)
    IN  \/ ~tried.ok
        \/ CASE platform = GitHub ->
                    ~(Truthy(r.value) /\ Truthy(Get(r.value, "login")))
              [] platform = GitLab -> r.value.t # "arr"
              [] platform = Reddit ->
                    ~(/\ Truthy(r.value)
                      /\ Truthy(Get(r.value, "data"))
                      /\ Truthy(Get(Get(r.value, "data"), "name")))
              [] platform = StackOverflow -> Get(r.value, "items").t # "arr"

\* C23: whatever the four platform requests come to (an answer with any payload,
\* a non-success status, a transport failure, a malformed payload) and whatever
\* the username, lookupUsername returns exactly four profiles in the order
\* GitHub, GitLab, Reddit, StackOverflow, none dropped, and the profile of a
\* platform whose request failed or whose payload is malformed has exists false
\* and no data.
C23_FourProfilesInOrder ==
    UsernameReturned =>
        /\ Len(call.out.v) = 4
        /\ \A i \in 1..4 :
            /\ call.out.v[i].platform = Platforms[i]
            /\ FailedOrMalformed(Platforms[i]) =>
                    ~call.out.v[i].exists /\ call.out.v[i].data = Undef

\* The elements of the array whose field key, as text, equals the username in any
\* letter case.
NamedLike(arr, key, username) ==
    {i \in 1..Len(arr) :
        /\ CanGet(arr[i])
        /\ CanToString(Get(arr[i], key))
        /\ ToLowerCase(ToStringChars(Get(arr[i], key)).value) = ToLowerCase(username)}

\* The match condition of GitHub, GitLab and Reddit on a decoded payload, as the
\* claim words it.
MatchCondition(platform, payload, username) ==
    CASE platform = GitHub -> CanGet(payload) /\ Truthy(Get(payload, "login"))
      [] platform = GitLab -> payload.t = "arr" /\ NamedLike(payload.v, "username", username) # {}
      [] platform = Reddit ->
            /\ CanGet(payload)
            /\ CanGet(Get(payload, "data"))
            /\ Truthy(Get(Get(payload, "data"), "name"))

\* The data of the found profile, as the claim words it.
MatchData(platform, payload, username) ==
    CASE platform = GitHub -> payload
      [] platform = GitLab ->
            payload.v[CHOOSE i \in NamedLike(payload.v, "username", username) :
                        \A j \in NamedLike(payload.v, "username", username) : i <= j]
      [] platform = Reddit -> Get(payload, "data")

\* C24: the GitHub, GitLab and Reddit profiles have exists true iff the request
\* succeeded and the platform's match condition holds, and then data is the
\* payload, the matching element, the payload's inner data object; in every
\* other case exists is false and data is absent.
C24_ExistsIffMatch ==
    (UsernameReturned /\ RequestsIssued) =>
        \A i \in 1..3 :
            LET r == fetchJSON(upstream[Platforms[i]])
                match == /\ r.status = "fulfilled"
                         /\ MatchCondition(Platforms[i], r.value, call.input)
            IN  /\ call.out.v[i].exists <=> match
                /\ match => call.out.v[i].data = MatchData(Platforms[i], r.value, call.input)
                /\ ~match => call.out.v[i].data = Undef

\* The payload has an items array that is not empty.
HasItems(payload) ==
    /\ CanGet(payload)
    /\ Get(payload, "items").t = "arr"
    /\ Len(Get(payload, "items").v) > 0

\* C25: the StackOverflow profile has exists true iff the request succeeded and
\* the payload's items array is not empty; its data is the decoded payload
\* whenever the request succeeded; when the request failed exists is false and
\* data is absent.
C25_StackOverflowExists ==
    (UsernameReturned /\ RequestsIssued) =>
        LET r == fetchJSON(upstream[StackOverflow])
            p == call.out.v[4]
        IN  /\ p.platform = StackOverflow
            /\ p.exists <=> (r.status = "fulfilled" /\ HasItems(r.value))
            /\ r.status = "fulfilled" => p.data = r.value
            /\ r.status # "fulfilled" => p.data = Undef

------------------------------------------------------------------------------
\* Claims about the lists of the DomainRecord (checked under SpecDomain)

DomainReturned == call.kind = "domain" /\ call.pc = "returned"

\* The ways to read s as digits, whitespace, host: the last digit is at i, the
\* last whitespace character before the host at j, the host is on one line.
MxSplits(s) ==
    {ij \in (1..Len(s)) \X (1..Len(s)) :
        /\ ij[1] < ij[2] /\ ij[2] < Len(s)
        /\ \A k \in 1..ij[1] : IsDigit(s[k])
        /\ \A k \in (ij[1] + 1)..ij[2] : s[k] \in WhiteSpaceChars
        /\ s[ij[2] + 1] \notin WhiteSpaceChars
        /\ \A k \in (ij[2] + 1)..Len(s) : s[k] \notin LineTerminators}

HasMxShape(data) == data.t = "str" /\ MxSplits(data.v) # {}

\* The entry the claim gives for data of that shape.
MxEntry(data) ==
    LET ij == CHOOSE x \in MxSplits(data.v) : TRUE
        host == SubSeq(data.v, ij[2] + 1, Len(data.v))
    IN  [priority |-> CharsToNat(SubSeq(data.v, 1, ij[1])),
         exchange |-> IF host[Len(host)] = "." THEN SubSeq(host, 1, Len(host) - 1) ELSE host]

\* C26: the mx list holds, in server order, exactly the MX answers whose data has
\* the shape digits, whitespace, hostname with optional trailing dot, each as its
\* priority (the value of the digits) and its exchange (the hostname without its
\* trailing dot); the other answers are dropped.
C26_MxList ==
    DomainReturned =>
        LET shaped == SelectSeq(DataOf(task["MX"].value), HasMxShape)
        IN  /\ Len(call.out.mx) = Len(shaped)
            /\ \A i \in 1..Len(shaped) : call.out.mx[i] = MxEntry(shaped[i])

\* The answer's data is text that, one leading and one trailing double quote
\* removed, contains the tag in any letter case.
TxtNames(data, tag) ==
    data.t = "str" /\ Includes(ToLowerCase(StripQuotes(data.v)), tag)

\* C27: spf is true iff a TXT answer of the base domain, its quotes removed,
\* contains 'v=spf1' in any letter case; the TXT answers of _dmarc.<domain> do
\* not count for spf, and dmarc is never a TXT answer of the base domain only.
C27_SpfFromBaseTxt ==
    DomainReturned =>
        LET base == DataOf(task["TXT"].value)
            sub == DataOf(task["DMARC"].value)
        IN  /\ call.out.spf <=> \E i \in 1..Len(base) : TxtNames(base[i], SpfTag)
            /\ call.out.dmarc # Null =>
                    \E i \in 1..Len(sub) :
                        sub[i].t = "str" /\ call.out.dmarc = Str(StripQuotes(sub[i].v))

\* The base domain publishes 'V=SPF1 -all': spf is true, and dmarc is the policy
\* of _dmarc.<domain>.
C27_Witness ==
    /\ DomainReturned
    /\ DataOf(task["TXT"].value) = <<Str(<<"V", "=", "S", "P", "F", "1", " ", "-", "a", "l", "l">>)>>
    /\ call.out.spf
    /\ call.out.dmarc = Str(<<"v", "=", "D", "M", "A", "R", "C", "1", ";", " ", "p", "=", "r", "e", "j", "e", "c", "t">>)

\* The TXT answers of _dmarc.<domain> that name a DMARC policy, by position.
DmarcAnswers ==
    {i \in 1..Len(DataOf(task["DMARC"].value)) :
        TxtNames(DataOf(task["DMARC"].value)[i], DmarcTag)}

\* C28: dmarc is the first, in server order, of the TXT answers of
\* _dmarc.<domain> whose text contains 'v=dmarc' in any letter case, stored with
\* its quotes removed and its letters as they came; it is null when there is no
\* such answer or the query failed.
C28_DmarcFirstMatch ==
    DomainReturned =>
        IF DmarcAnswers = {} THEN call.out.dmarc = Null
        ELSE LET first == CHOOSE i \in DmarcAnswers : \A j \in DmarcAnswers : i <= j
             IN  call.out.dmarc = Str(StripQuotes(DataOf(task["DMARC"].value)[first].v))

\* The server returned 'v=DMARC1; p=none' and then "v=DMARC1; p=reject": the
\* first is stored, capitals kept.
C28_Witness ==
    /\ DomainReturned
    /\ Cardinality(DmarcAnswers) = 2
    /\ call.out.dmarc = Str(<<"v", "=", "D", "M", "A", "R", "C", "1", ";", " ", "p", "=", "n", "o", "n", "e">>)

\* The NS answer's data is kept: it is not falsy and is not a lone dot.
NsKept(data) ==
    Truthy(data) /\ CanToString(data) /\ StripTrailingDot(ToStringChars(data).value) # <<>>

\* C29: the ns list holds, in server order, the data of each NS answer with one
\* trailing dot removed, and has no entry for an answer whose data is falsy
\* (empty, missing or null) or is empty once the dot is removed.
C29_NsList ==
    DomainReturned =>
        LET kept == SelectSeq(DataOf(task["NS"].value), NsKept)
        IN  /\ Len(call.out.ns) = Len(kept)
            /\ \A i \in 1..Len(kept) :
                    call.out.ns[i] = StripTrailingDot(ToStringChars(kept[i]).value)

------------------------------------------------------------------------------
\* Claims about the coordinates of the IPRecord (checked under SpecIP)

\* C30: a lat or lon that ip-api.com supplied (its payload applied, the field a
\* number, 0 included) is kept in the returned record and is not replaced by the
\* latitude or longitude of ipwho.is.
C30_CoordinatesKept ==
    (IPReturned /\ IpApiUsable) =>
        \A f \in {"lat", "lon"} :
            Get(upstream[IpApi].payload, f).t = "num" =>
                call.out[f] = Get(upstream[IpApi].payload, f)

====
